---- MODULE Spec2Model ----
\* Model of the seed-execution engine of rocket-anchor (src/src/seeder.ts):
\* runSeeds -> seedProgram -> executeFunction -> processPlaceholders.
\*
\* JavaScript strings are sequences of one-character strings, so that prefix
\* tests, splitting and base58 decoding are computed as the code computes them.
\* JavaScript values are records tagged by their typeof in field t.
EXTENDS Integers, Sequences, FiniteSets, TLC

\* ---------------------------------------------------------------------
\* Bounds of the model
\* ---------------------------------------------------------------------
\* size of the list of plans of a run: its plans plus the iterations of their
\* seed entries
MaxSize == 4

\* largest repeat count of the counter scenario
MaxRepeat == 5

\* ---------------------------------------------------------------------
\* String literals of the source
\* ---------------------------------------------------------------------
sSigner == <<"s","i","g","n","e","r">>
sPayer == <<"p","a","y","e","r">>
sSystemProgram == <<"s","y","s","t","e","m","P","r","o","g","r","a","m">>
sRent == <<"r","e","n","t">>
sNewPrefix == <<"n","e","w",":">>
sPdaPrefix == <<"p","d","a",":">>
sKeypairSuffix == <<"_","k","e","y","p","a","i","r">>
sComma == ","

\* String.prototype.startsWith
StartsWith(s, p) ==
  /\ Len(s) >= Len(p)
  /\ SubSeq(s, 1, Len(p)) = p

\* String.prototype.endsWith
EndsWith(s, p) ==
  /\ Len(s) >= Len(p)
  /\ SubSeq(s, Len(s) - Len(p) + 1, Len(s)) = p

\* str.replace(/^pda:/, "")
StripPdaPrefix(s) ==
  IF StartsWith(s, sPdaPrefix) THEN SubSeq(s, Len(sPdaPrefix) + 1, Len(s)) ELSE s

\* String.prototype.split(','): the pieces between the commas, always at
\* least one fragment
CommasOf(s) == {p \in 1..Len(s) : s[p] = sComma}

\* position of the k-th comma of s; 0 before the first, Len(s) + 1 after the last
CommaAt(s, k) ==
  IF k = 0 THEN 0
  ELSE IF k > Cardinality(CommasOf(s)) THEN Len(s) + 1
  ELSE CHOOSE p \in CommasOf(s) : Cardinality({q \in CommasOf(s) : q < p}) = k - 1

\* Split when a fragment that begins with pda: takes the rest of the text,
\* commas included
SplitGreedy(s) ==
  LET nested == {k \in 1..(Cardinality(CommasOf(s)) + 1) :
                   StartsWith(SubSeq(s, CommaAt(s, k - 1) + 1, CommaAt(s, k) - 1), sPdaPrefix)}
      count == IF nested = {} THEN Cardinality(CommasOf(s)) + 1
               ELSE CHOOSE k \in nested : \A o \in nested : k <= o
  IN [k \in 1..count |->
        SubSeq(s, CommaAt(s, k - 1) + 1,
               IF k = count /\ nested # {} THEN Len(s) ELSE CommaAt(s, k) - 1)]

Split(s) ==
  [k \in 1..(Cardinality(CommasOf(s)) + 1) |->
     SubSeq(s, CommaAt(s, k - 1) + 1, CommaAt(s, k) - 1)]

\* Number.prototype.toString for integers: decimal digits, '-' for negatives
Digits == <<"0","1","2","3","4","5","6","7","8","9">>

RECURSIVE NatToString(_)
NatToString(n) ==
  IF n < 10 THEN <<Digits[n + 1]>>
  ELSE Append(NatToString(n \div 10), Digits[(n % 10) + 1])

NumberToString(n) == IF n < 0 THEN <<"-">> \o NatToString(0 - n) ELSE NatToString(n)

\* new anchor.BN(decimalString): base-10 parse with optional leading '-'
DigitValue(c) == (CHOOSE k \in 1..10 : Digits[k] = c) - 1

RECURSIVE ParseNat(_, _, _)
ParseNat(s, p, acc) ==
  IF p > Len(s) THEN acc ELSE ParseNat(s, p + 1, acc * 10 + DigitValue(s[p]))

BN(s) ==
  [t |-> "BN",
   num |-> IF Len(s) > 0 /\ s[1] = "-" THEN 0 - ParseNat(s, 2, 0) ELSE ParseNat(s, 1, 0)]

\* ---------------------------------------------------------------------
\* Addresses: new PublicKey(str) is bs58.decode(str) followed by a length test
\* ---------------------------------------------------------------------
PUBLIC_KEY_LENGTH == 32
MAX_SEED_LENGTH == 32

B58Alphabet ==
  <<"1","2","3","4","5","6","7","8","9",
    "A","B","C","D","E","F","G","H","J","K","L","M","N","P","Q","R","S","T","U",
    "V","W","X","Y","Z",
    "a","b","c","d","e","f","g","h","i","j","k","m","n","o","p","q","r","s","t",
    "u","v","w","x","y","z">>

IsB58Char(c) == \E k \in 1..Len(B58Alphabet) : B58Alphabet[k] = c

B58Digit(c) == (CHOOSE k \in 1..Len(B58Alphabet) : B58Alphabet[k] = c) - 1

\* the bytes of a carry that is left over, little endian
B58CarryBytes(c) ==
  IF c = 0 THEN <<>>
  ELSE IF c < 256 THEN <<c>>
  ELSE IF c < 65536 THEN <<c % 256, c \div 256>>
  ELSE IF c < 16777216 THEN <<c % 256, (c \div 256) % 256, c \div 65536>>
  ELSE <<c % 256, (c \div 256) % 256, (c \div 65536) % 256, c \div 16777216>>

\* one step of the base conversion: bytes (little endian) * radix + carry,
\* two bytes at a time
RECURSIVE B58MulAdd(_, _, _, _)
B58MulAdd(bytes, k, carry, radix) ==
  IF k > Len(bytes) THEN B58CarryBytes(carry)
  ELSE IF k = Len(bytes)
  THEN <<(carry + radix * bytes[k]) % 256>>
       \o B58CarryBytes((carry + radix * bytes[k]) \div 256)
  ELSE <<(carry + radix * bytes[k]) % 256,
         ((carry + radix * bytes[k]) \div 256 + radix * bytes[k + 1]) % 256>>
       \o B58MulAdd(bytes, k + 2,
                    ((carry + radix * bytes[k]) \div 256 + radix * bytes[k + 1]) \div 256,
                    radix)

\* the number the characters z+1..p of s stand for, in little-endian bytes;
\* the digits are taken three at a time (58 * 58 * 58 fits the integers)
RECURSIVE B58Significant(_, _, _)
B58Significant(s, z, p) ==
  IF p <= z THEN <<>>
  ELSE IF p - z >= 3
  THEN B58MulAdd(B58Significant(s, z, p - 3), 1,
                 (B58Digit(s[p - 2]) * 58 + B58Digit(s[p - 1])) * 58 + B58Digit(s[p]),
                 58 * 58 * 58)
  ELSE IF p - z = 2
  THEN B58MulAdd(<<>>, 1, B58Digit(s[p - 1]) * 58 + B58Digit(s[p]), 58)
  ELSE B58MulAdd(<<>>, 1, B58Digit(s[p]), 58)

\* the number of leading '1' characters of s
B58Zeroes(s) ==
  CHOOSE z \in 0..Len(s) :
    /\ \A p \in 1..z : s[p] = "1"
    /\ z = Len(s) \/ s[z + 1] # "1"

Reverse(q) == [k \in 1..Len(q) |-> q[Len(q) + 1 - k]]

\* bs58.decode: every leading '1' is a zero byte, the rest is the number in
\* big-endian bytes; a character outside the alphabet throws
B58DecodeFrom(s, z) ==
  [ok |-> TRUE, bytes |-> [k \in 1..z |-> 0] \o Reverse(B58Significant(s, z, Len(s)))]

B58Decode(s) ==
  IF \E p \in 1..Len(s) : ~IsB58Char(s[p])
  THEN [ok |-> FALSE, msg |-> "Non-base58 character"]
  ELSE B58DecodeFrom(s, B58Zeroes(s))

\* the length test of new PublicKey on the decoded bytes d
PublicKeyFromDecoded(d) ==
  IF ~d.ok THEN [ok |-> FALSE, msg |-> d.msg]
  ELSE IF Len(d.bytes) # PUBLIC_KEY_LENGTH
  THEN [ok |-> FALSE, msg |-> "Invalid public key input"]
  ELSE [ok |-> TRUE, pk |-> [t |-> "PublicKey", k |-> "bytes", bytes |-> d.bytes]]

\* new PublicKey(str), as a result record: ok with the key, or the thrown error
NewPublicKey(s) == PublicKeyFromDecoded(B58Decode(s))

\* isValidPublicKeyResult when the catch branch is taken for every string
isValidPublicKeyNever(r) == FALSE

\* isValidPublicKey: whether new PublicKey(str) returned (r.ok) or threw
isValidPublicKeyResult(r) == r.ok

isValidPublicKey(s) == isValidPublicKeyResult(NewPublicKey(s))

\* ---------------------------------------------------------------------
\* Values
\* ---------------------------------------------------------------------
\* A field name carries one type of value in every record that has it.
Num(n) == [t |-> "number", num |-> n]
BigInt(n) == [t |-> "bigint", num |-> n]
Str(s) == [t |-> "string", str |-> s]
Obj(o) == [t |-> "object", obj |-> o]
Bool(b) == [t |-> "boolean", bool |-> b]
Undefined == [t |-> "undefined"]

\* typeof value
TypeOf(v) ==
  IF v.t \in {"number", "bigint", "string", "boolean", "undefined"} THEN v.t ELSE "object"

\* SystemProgram.programId and SYSVAR_RENT_PUBKEY of @solana/web3.js
sSystemProgramId == [k \in 1..32 |-> "1"]
sSysvarRent == <<"S","y","s","v","a","r","R","e","n","t","1","1","1","1","1","1","1","1","1","1","1","1","1","1","1","1","1","1","1","1","1","1","1","1","1","1","1","1","1","1","1","1","1">>
SystemProgramId == NewPublicKey(sSystemProgramId).pk
SYSVAR_RENT_PUBKEY == NewPublicKey(sSysvarRent).pk

\* KeypairGenerate when the keypair is made once and kept for later calls
KeypairGenerateOnce(n) == [kp |-> [t |-> "Keypair", id |-> 1], next |-> n + 1]

\* Keypair.generate(): n is the number of keypairs generated so far in this
\* process; the key material is random, so every call yields a new keypair
KeypairGenerate(n) == [kp |-> [t |-> "Keypair", id |-> n + 1], next |-> n + 1]

\* keypair.publicKey
PublicKeyOf(kp) == [t |-> "PublicKey", k |-> "gen", id |-> kp.id]

\* length in bytes of a seed buffer
BufferLength(buf) == IF buf.b = "key" THEN PUBLIC_KEY_LENGTH ELSE Len(buf.str)

\* PublicKey.findProgramAddressSync(seeds, programId): the derived address is
\* a hash of the seed list and the program address; a seed longer than
\* MAX_SEED_LENGTH throws
findProgramAddressSync(seedBuffers, programId) ==
  IF \E p \in 1..Len(seedBuffers) : BufferLength(seedBuffers[p]) > MAX_SEED_LENGTH
  THEN [ok |-> FALSE, msg |-> "Max seed length exceeded"]
  ELSE [ok |-> TRUE,
        pk |-> [t |-> "PublicKey", k |-> "pda", seeds |-> seedBuffers, program |-> programId]]

\* a resolved value: the result of one branch of processPlaceholders
Resolved(val, n) == [ok |-> TRUE, val |-> val, minted |-> FALSE, next |-> n]

\* the result r of new PublicKey or of a derivation, as a resolved value or
\* the error thrown
ResolvedKey(r, n) ==
  IF r.ok THEN Resolved(r.pk, n) ELSE [ok |-> FALSE, msg |-> r.msg, next |-> n]

\* processPda of processPlaceholders: ctx is [wallet, programId]
RECURSIVE processPda(_, _)
RECURSIVE PdaSeedBuffers(_, _, _)

\* the derived address r as a seed: processPda(s).toBuffer()
KeyBuffer(r) ==
  IF r.ok THEN [ok |-> TRUE, buf |-> [b |-> "key", pk |-> r.pk]]
  ELSE [ok |-> FALSE, msg |-> r.msg]

\* SeedBuffer without the signer branch: the fragment is taken as text
SeedBufferSignerText(s, ctx) ==
  IF StartsWith(s, sPdaPrefix)
  THEN (IF processPda(s, ctx).ok
        THEN [ok |-> TRUE, buf |-> [b |-> "key", pk |-> processPda(s, ctx).pk]]
        ELSE [ok |-> FALSE, msg |-> processPda(s, ctx).msg])
  ELSE [ok |-> TRUE, buf |-> [b |-> "utf8", str |-> s]]

\* SeedBuffer with the signer fragment fixed to one identity, whoever calls
SeedBufferFixedSigner(s, ctx) ==
  IF s = sSigner
  THEN [ok |-> TRUE,
        buf |-> [b |-> "key",
                 pk |-> [t |-> "PublicKey", k |-> "bytes", bytes |-> [p \in 1..32 |-> 7]]]]
  ELSE IF StartsWith(s, sPdaPrefix)
  THEN (IF processPda(s, ctx).ok
        THEN [ok |-> TRUE, buf |-> [b |-> "key", pk |-> processPda(s, ctx).pk]]
        ELSE [ok |-> FALSE, msg |-> processPda(s, ctx).msg])
  ELSE [ok |-> TRUE, buf |-> [b |-> "utf8", str |-> s]]

\* SeedBuffer taking a nested fragment as the text after its prefix
SeedBufferFlat(s, ctx) ==
  IF s = sSigner THEN [ok |-> TRUE, buf |-> [b |-> "key", pk |-> ctx.wallet]]
  ELSE IF StartsWith(s, sPdaPrefix)
  THEN [ok |-> TRUE, buf |-> [b |-> "utf8", str |-> StripPdaPrefix(s)]]
  ELSE [ok |-> TRUE, buf |-> [b |-> "utf8", str |-> s]]

\* the function mapped over the fragments
SeedBuffer(s, ctx) ==
  IF s = sSigner THEN [ok |-> TRUE, buf |-> [b |-> "key", pk |-> ctx.wallet]]
  ELSE IF StartsWith(s, sPdaPrefix) THEN KeyBuffer(processPda(s, ctx))
  ELSE [ok |-> TRUE, buf |-> [b |-> "utf8", str |-> s]]

PrependBuffer(head, rest) ==
  IF ~rest.ok THEN [ok |-> FALSE, msg |-> rest.msg]
  ELSE [ok |-> TRUE, bufs |-> <<head.buf>> \o rest.bufs]

MapRest(head, seeds, p, ctx) ==
  IF ~head.ok THEN [ok |-> FALSE, msg |-> head.msg]
  ELSE PrependBuffer(head, PdaSeedBuffers(seeds, p + 1, ctx))

\* seeds.map(...), left to right; the first fragment that throws ends the map
PdaSeedBuffers(seeds, p, ctx) ==
  IF p > Len(seeds) THEN [ok |-> TRUE, bufs |-> <<>>]
  ELSE MapRest(SeedBuffer(seeds[p], ctx), seeds, p, ctx)

DeriveFrom(r, ctx) ==
  IF ~r.ok THEN [ok |-> FALSE, msg |-> r.msg]
  ELSE findProgramAddressSync(r.bufs, ctx.programId)

processPda(str, ctx) == DeriveFrom(PdaSeedBuffers(Split(StripPdaPrefix(str)), 1, ctx), ctx)

\* defaultRule without the new PublicKey of the accounts branch
defaultRulePassThrough(value, placeholderType, n) ==
  [ok |-> TRUE, val |-> value, minted |-> FALSE, next |-> n]

\* the final else of processPlaceholders: an args value passes through, an
\* accounts value goes through new PublicKey(value.toString())
defaultRule(value, placeholderType, n) ==
  IF placeholderType = "args" THEN Resolved(value, n)
  ELSE ResolvedKey(NewPublicKey(value.str), n)

\* const keypair = Keypair.generate(); processedData[key] = keypair.publicKey
Minted(g) == [ok |-> TRUE, val |-> PublicKeyOf(g.kp), minted |-> TRUE, kp |-> g.kp,
              next |-> g.next]

\* processString whose pda: branch takes the key of a fresh keypair once a
\* keypair was generated in the run
processStringPdaMinted(str, value, placeholderType, ctx, n) ==
  IF str = sSigner \/ str = sPayer
  THEN [ok |-> TRUE, val |-> ctx.wallet, minted |-> FALSE, next |-> n]
  ELSE IF str = sSystemProgram
  THEN [ok |-> TRUE, val |-> SystemProgramId, minted |-> FALSE, next |-> n]
  ELSE IF str = sRent
  THEN [ok |-> TRUE, val |-> SYSVAR_RENT_PUBKEY, minted |-> FALSE, next |-> n]
  ELSE IF StartsWith(str, sNewPrefix)
  THEN [ok |-> TRUE, val |-> PublicKeyOf(KeypairGenerate(n).kp), minted |-> TRUE,
        kp |-> KeypairGenerate(n).kp, next |-> KeypairGenerate(n).next]
  ELSE IF StartsWith(str, sPdaPrefix) /\ n > 0
  THEN [ok |-> TRUE, val |-> PublicKeyOf(KeypairGenerate(n).kp), minted |-> FALSE,
        next |-> KeypairGenerate(n).next]
  ELSE IF StartsWith(str, sPdaPrefix)
  THEN (IF processPda(str, ctx).ok
        THEN [ok |-> TRUE, val |-> processPda(str, ctx).pk, minted |-> FALSE, next |-> n]
        ELSE [ok |-> FALSE, msg |-> processPda(str, ctx).msg, next |-> n])
  ELSE IF placeholderType = "args"
  THEN [ok |-> TRUE, val |-> value, minted |-> FALSE, next |-> n]
  ELSE IF NewPublicKey(value.str).ok
  THEN [ok |-> TRUE, val |-> NewPublicKey(value.str).pk, minted |-> FALSE, next |-> n]
  ELSE [ok |-> FALSE, msg |-> NewPublicKey(value.str).msg, next |-> n]

\* the branches of processPlaceholders for a string that is no valid address
processString(str, value, placeholderType, ctx, n) ==
  IF str = sSigner \/ str = sPayer THEN Resolved(ctx.wallet, n)
  ELSE IF str = sSystemProgram THEN Resolved(SystemProgramId, n)
  ELSE IF str = sRent THEN Resolved(SYSVAR_RENT_PUBKEY, n)
  ELSE IF StartsWith(str, sNewPrefix) THEN Minted(KeypairGenerate(n))
  ELSE IF StartsWith(str, sPdaPrefix) THEN ResolvedKey(processPda(str, ctx), n)
  ELSE defaultRule(value, placeholderType, n)

\* isValidPublicKey(value) on the result r of new PublicKey(value)
processStringAs(r, value, placeholderType, ctx, n) ==
  IF isValidPublicKeyResult(r) THEN Resolved(r.pk, n)
  ELSE processString(value.str, value, placeholderType, ctx, n)

\* Body of the loop of processPlaceholders for one value: the resolved value,
\* the keypair minted for it (if any), or the error thrown
processEntry(value, placeholderType, ctx, n) ==
  IF TypeOf(value) = "object" \/ TypeOf(value) \notin {"number", "bigint", "string"}
  THEN Resolved(value, n)
  ELSE IF TypeOf(value) \in {"number", "bigint"}
  THEN Resolved(BN(NumberToString(value.num)), n)
  ELSE processStringAs(NewPublicKey(value.str), value, placeholderType, ctx, n)

\* processedData[key] = val on a plain object: overwrite in place, else append
SetProp(data, key, val) ==
  IF \E p \in 1..Len(data) : data[p].key = key
  THEN [p \in 1..Len(data) |-> IF data[p].key = key THEN [key |-> key, val |-> val] ELSE data[p]]
  ELSE Append(data, [key |-> key, val |-> val])

\* Object.entries(data): an accounts map is kept as its entry list, an args
\* array has the keys "0", "1", ...
ObjectEntries(data, placeholderType) ==
  IF placeholderType = "args"
  THEN [p \in 1..Len(data) |-> [key |-> NumberToString(p - 1), val |-> data[p]]]
  ELSE data

\* if (placeholderType == "accounts") after a keypair was generated
RegistersSigner(minted, placeholderType) == minted /\ placeholderType = "accounts"

\* the assignments to processedData for the resolved value r of role key
Store(processedData, key, r, placeholderType) ==
  IF RegistersSigner(r.minted, placeholderType)
  THEN SetProp(SetProp(processedData, key, r.val), key \o sKeypairSuffix, r.kp)
  ELSE SetProp(processedData, key, r.val)

RECURSIVE processLoop(_, _, _, _, _, _)

\* processStep with a catch that reports and does not throw again: the
\* entry is left out and the loop goes on
processStepSwallowed(r, entries, p, placeholderType, ctx, processedData) ==
  IF ~r.ok
  THEN processLoop(entries, p + 1, placeholderType, ctx, processedData, r.next)
  ELSE processLoop(entries, p + 1, placeholderType, ctx,
                   Store(processedData, entries[p].key, r, placeholderType), r.next)

\* one turn of the loop, r being what the body made of entries[p]; the catch
\* reports the key and the value and throws the error again
processStep(r, entries, p, placeholderType, ctx, processedData) ==
  IF ~r.ok
  THEN [ok |-> FALSE, msg |-> r.msg, next |-> r.next, data |-> processedData,
        report |-> [type |-> placeholderType, key |-> entries[p].key, val |-> entries[p].val]]
  ELSE processLoop(entries, p + 1, placeholderType, ctx,
                   Store(processedData, entries[p].key, r, placeholderType), r.next)

processLoop(entries, p, placeholderType, ctx, processedData, n) ==
  IF p > Len(entries)
  THEN [ok |-> TRUE, data |-> processedData, next |-> n, msg |-> "", report |-> Undefined]
  ELSE processStep(processEntry(entries[p].val, placeholderType, ctx, n),
                   entries, p, placeholderType, ctx, processedData)

\* processPlaceholders(program, provider, data, placeholderType); n is the
\* number of keypairs generated before the call
processPlaceholders(ctx, data, placeholderType, n) ==
  processLoop(ObjectEntries(data, placeholderType), 1, placeholderType, ctx, <<>>, n)

\* ---------------------------------------------------------------------
\* Seed plans (SeedConfig of types.ts) the model runs on
\* ---------------------------------------------------------------------
\* if (x), x || d, x && y: undefined, 0 and the empty string are falsy
Truthy(v) ==
  CASE v.t = "undefined" -> FALSE
    [] v.t = "number" -> v.num # 0
    [] v.t = "string" -> v.str # <<>>
    [] v.t = "boolean" -> v.bool
    [] OTHER -> TRUE

Account(role, value) == [key |-> role, val |-> value]

\* { function: "initialize",
\*   accounts: { counter: "pda:counter", authority: "signer",
\*               systemProgram: "systemProgram" }, args: [0] }
csInitialize ==
  [t |-> "object", function |-> "initialize",
   accounts |-> <<Account(<<"c","o","u","n","t","e","r">>, Str(<<"p","d","a",":","c","o","u","n","t","e","r">>)),
                  Account(<<"a","u","t","h","o","r","i","t","y">>, Str(sSigner)),
                  Account(sSystemProgram, Str(sSystemProgram))>>,
   args |-> <<Num(0)>>]

\* { function: "mint", accounts: { mint: "new:", vault: "new:vault",
\*   payer: "payer" }, args: ["new:", 5] }
csMint ==
  [t |-> "object", function |-> "mint",
   accounts |-> <<Account(<<"m","i","n","t">>, Str(sNewPrefix)),
                  Account(<<"v","a","u","l","t">>, Str(<<"n","e","w",":","v","a","u","l","t">>)),
                  Account(sPayer, Str(sPayer))>>,
   args |-> <<Str(sNewPrefix), Num(5)>>]

sCounter == <<"c","o","u","n","t","e","r">>
sAuthority == <<"a","u","t","h","o","r","i","t","y">>

\* { function: "increment",
\*   accounts: { counter: "pda:counter", authority: "signer" }, args: [] }
csIncrement ==
  [t |-> "object", function |-> "increment",
   accounts |-> <<Account(sCounter, Str(sPdaPrefix \o sCounter)),
                  Account(sAuthority, Str(sSigner))>>,
   args |-> <<>>]

\* { function: "decrement",
\*   accounts: { counter: "pda:counter", authority: "signer" }, args: ["new:"] }
\* a call of a function the counter program does not have
csDecrement ==
  [t |-> "object", function |-> "decrement",
   accounts |-> <<Account(sCounter, Str(sPdaPrefix \o sCounter)),
                  Account(sAuthority, Str(sSigner))>>,
   args |-> <<Str(sNewPrefix)>>]

InitializeCalls == {csInitialize}
SeedCalls == {csMint}

\* repeat?: number
RepeatValues == {Undefined} \cup {Num(n) : n \in 1..MaxSize}

SeedEntries ==
  {[t |-> "object", function |-> c.function, accounts |-> c.accounts, args |-> c.args,
    repeat |-> r] :
     c \in SeedCalls, r \in RepeatValues}

Array(items) == [t |-> "array", items |-> items]

ProgramNames == {<<"A">>, <<"B">>}

\* the size of a seed entry is the number of iterations it asks for
EntrySize(e) == IF e.repeat.t = "number" /\ e.repeat.num > 1 THEN e.repeat.num ELSE 1

\* the seeds lists of size w
RECURSIVE SeedListsOfSize(_)
SeedListsOfSize(w) ==
  IF w = 0 THEN {<<>>}
  ELSE UNION {{<<e>> \o rest : e \in {x \in SeedEntries : EntrySize(x) = k},
                               rest \in SeedListsOfSize(w - k)} : k \in 1..w}

\* the SeedConfigs of size w: one for the plan itself, plus its seeds
PlansOfSize(w) ==
  {[program |-> p, initialize |-> ini,
    seeds |-> IF q = <<>> THEN Undefined ELSE Array(q)] :
     p \in ProgramNames,
     ini \in {Undefined} \cup InitializeCalls,
     q \in SeedListsOfSize(w - 1)}

RECURSIVE PlanListsOfSize(_)
PlanListsOfSize(w) ==
  IF w = 0 THEN {<<>>}
  ELSE UNION {{<<pl>> \o rest : pl \in PlansOfSize(k), rest \in PlanListsOfSize(w - k)} :
                k \in 1..w}

\* what loadSeedConfigs returns: the lists of plans of size MaxSize at most
PlanLists == UNION {PlanListsOfSize(w) : w \in 1..MaxSize}

\* ---------------------------------------------------------------------
\* Values of one entry of an accounts map or of an args list
\* ---------------------------------------------------------------------
sBob == <<"b","o","b">>
sNewVault == sNewPrefix \o <<"v","a","u","l","t">>
sPdaVault == sPdaPrefix \o <<"v","a","u","l","t">>
sPdaVaultSigner == sPdaVault \o <<sComma>> \o sSigner
sPdaNested == sPdaPrefix \o sPdaPrefix \o <<"x", sComma, "y">>
sPdaXY == sPdaPrefix \o <<"x", sComma, "y">>
sPdaNestedSigner == sPdaPrefix \o sPdaPrefix \o sSigner \o <<sComma, "y">>
sPdaVaultColonSigner == sPdaVault \o <<":">> \o sSigner
sPdaMiddle == sPdaPrefix \o <<"a", sComma>> \o sPdaPrefix \o <<"b", sComma, "c">>
sPdaLong == sPdaPrefix \o [k \in 1..(MAX_SEED_LENGTH + 1) |-> "a"]
sNotBase58 == <<"0","O","I","l">>
sShortKey == [k \in 1..(PUBLIC_KEY_LENGTH - 1) |-> "1"]

PlaceholderStrings ==
  {sSigner, sPayer, sSystemProgram, sRent, sNewPrefix, sNewVault, sPdaPrefix, sPdaVault,
   sPdaVaultSigner, sPdaNested, sPdaXY, sPdaNestedSigner, sPdaVaultColonSigner,
   sPdaMiddle, sPdaLong, sSystemProgramId, sSysvarRent, sBob,
   sNotBase58, sShortKey, <<>>}

PlaceholderValues ==
  {Str(x) : x \in PlaceholderStrings}
    \cup {Num(0), Num(12), Num(0 - 3), BigInt(7), Bool(TRUE), Undefined, Obj("null")}

sMint == <<"m","i","n","t">>
sRole == <<"r","o","l","e">>

\* { function: "f", accounts: { role: v }, args: [w] }
csOne(v, w) ==
  [t |-> "object", function |-> "f", accounts |-> <<Account(sRole, v)>>, args |-> <<w>>]

\* accounts maps with a role whose name is that of another role followed by
\* _keypair, in both orders of the keys
csKeypairRoleAfter ==
  [t |-> "object", function |-> "f",
   accounts |-> <<Account(sMint, Str(sNewPrefix)),
                  Account(sMint \o sKeypairSuffix, Str(sSigner))>>,
   args |-> <<>>]

csKeypairRoleBefore ==
  [t |-> "object", function |-> "f",
   accounts |-> <<Account(sMint \o sKeypairSuffix, Str(sSigner)),
                  Account(sMint, Str(sNewPrefix))>>,
   args |-> <<>>]

ResolveCalls ==
  {csOne(v, w) : v \in PlaceholderValues, w \in PlaceholderValues}
    \cup {csKeypairRoleAfter, csKeypairRoleBefore}

\* one plan whose only call is c: as its initialize step, or as its one seed
ResolvePlans ==
  {[program |-> p, initialize |-> c, seeds |-> Undefined] :
     p \in ProgramNames, c \in ResolveCalls}
    \cup {[program |-> p, initialize |-> Undefined,
           seeds |-> Array(<<[t |-> "object", function |-> c.function,
                              accounts |-> c.accounts, args |-> c.args,
                              repeat |-> Undefined]>>)] :
            p \in ProgramNames, c \in ResolveCalls}

\* the seeds/index.ts of the README example, for the repeat counts up to
\* MaxRepeat, with and without its initialize step, and the same plans with
\* a second seed entry that calls decrement
SeedEntry(c, r) ==
  [t |-> "object", function |-> c.function, accounts |-> c.accounts, args |-> c.args,
   repeat |-> r]

CounterPlans ==
  {[program |-> sCounter, initialize |-> ini,
    seeds |-> Array(<<SeedEntry(csIncrement, Num(n))>> \o more)] :
     ini \in {Undefined, csInitialize}, n \in 1..MaxRepeat,
     more \in {<<>>, <<SeedEntry(csDecrement, Undefined)>>}}

\* options.program
ProgramFilters == {Undefined, Str(<<"A">>)}

\* ---------------------------------------------------------------------
\* State
\* ---------------------------------------------------------------------
VARIABLES
  chain,        \* the accounts the counter program holds on the chain
  wallet,       \* provider.wallet.publicKey: the identity runSeeds loaded
  seedConfigs,  \* the list loadSeedConfigs returned
  options,      \* SeedOptions: [program]
  pc,           \* position of the run
  planIdx,      \* index of the plan of the for..of loop of runSeeds
  planState,    \* per plan: Idle, Skipped, RunningInitialize, RunningSeeds, Done, Failed
  kind,         \* which step of seedProgram called executeFunction
  i,            \* seed index of seedProgram
  j,            \* iteration index of seedProgram
  generated,    \* number of keypairs Keypair.generate() made in this run
  calls,        \* one record per invocation of executeFunction, in order
  lookups,      \* file lookups made by seedProgram, in order
  logs,         \* what the last getParsedTransaction answered
  submissions,  \* number of transactions method.rpc() submitted
  fetches,      \* number of getParsedTransaction requests made
  error,        \* the error runSeeds threw, if any
  stage,        \* position of deploy
  deployOptions, \* DeployOptions: [program, skipBuild, verify, seed]
  balance,      \* what connection.getBalance answered for the deployer
  files,        \* the files of the deploy directory, in the order of readdirSync
  programs,     \* the list findPrograms returned
  results,      \* the DeployResult list of deploy
  cursor,       \* index of the for..of loop deploy is in
  invoked,      \* the tools and services deploy has called, in order
  deployError,  \* the error deploy threw, if any
  defaultProvider, \* the provider anchor.setProvider stored last
  seedRuns,      \* the runSeeds invocations running side by side
  seedScript,    \* options.seedScript of runSeeds
  seedFiles,     \* the seed modules that exist, by path
  seedExports,   \* what the seed module exports: [default, seeds]
  imported,      \* the path loadSeedConfigs imported, "" before that
  idlInSync      \* whether the address in the IDL is the key of the program keypair file

deployVars == <<stage, deployOptions, balance, files, programs, results, cursor, invoked,
                deployError>>

concurrentVars == <<defaultProvider, seedRuns>>

loaderVars == <<seedScript, seedFiles, seedExports, imported>>

otherVars == <<deployVars, concurrentVars, loaderVars, idlInSync>>

vars == <<chain, wallet, seedConfigs, options, otherVars, pc, planIdx, planState, kind, i, j, generated, calls,
          lookups, logs, submissions, fetches, error>>

NoError == [t |-> "undefined"]

\* new AnchorProvider(connection, wallet, ...): the provider object of run r
AnchorProvider(r, w) == [t |-> "AnchorProvider", run |-> r, wallet |-> w]

\* deploy is not running: runSeeds was called by the seed command
NoDeploy ==
  /\ stage = "none"
  /\ deployOptions = [t |-> "undefined"]
  /\ balance = 0
  /\ files = <<>>
  /\ programs = <<>>
  /\ results = <<>>
  /\ cursor = 0
  /\ invoked = <<>>
  /\ deployError = NoError

\* the conventional locations of loadSeedConfigs, in the order of the probe
sSeedsIndexTs == <<"s","e","e","d","s","/","i","n","d","e","x",".","t","s">>
sSeedsIndexJs == <<"s","e","e","d","s","/","i","n","d","e","x",".","j","s">>
sScriptsSeedTs == <<"s","c","r","i","p","t","s","/","s","e","e","d",".","t","s">>
sScriptsSeedJs == <<"s","c","r","i","p","t","s","/","s","e","e","d",".","j","s">>
seedPaths == <<sSeedsIndexTs, sSeedsIndexJs, sScriptsSeedTs, sScriptsSeedJs>>

\* loadSeedConfigs has returned the list seedConfigs, the default export of
\* seeds/index.ts; the IDL was built from the program keypair
SeedsLoaded ==
  /\ seedScript = [t |-> "undefined"]
  /\ seedFiles = {sSeedsIndexTs}
  /\ seedExports = [default |-> [t |-> "array",
                                  items |-> [k \in 1..Len(seedConfigs) |->
                                               [t |-> "object", plan |-> seedConfigs[k]]]],
                    seeds |-> [t |-> "undefined"]]
  /\ imported = sSeedsIndexTs

\* one runSeeds is running: anchor.setProvider(provider) of its setup is done
OneRun ==
  /\ defaultProvider = AnchorProvider(1, wallet)
  /\ seedRuns = <<>>

\* provider.wallet.publicKey: the identity loaded from the network's accounts
WalletPublicKey == [t |-> "PublicKey", k |-> "bytes", bytes |-> [p \in 1..32 |-> 7]]

\* the identity of another entry of the network's accounts
OtherWalletPublicKey == [t |-> "PublicKey", k |-> "bytes", bytes |-> [p \in 1..32 |-> 9]]

Wallets == {WalletPublicKey, OtherWalletPublicKey}

\* program.programId of new Program(idl, provider)
ProgramIdOf(name) == [t |-> "PublicKey", k |-> "idl", name |-> name]

\* programKeypair.publicKey of the file <program>-keypair.json: the address
\* the program is deployed at; the address in the interface file is the same
\* when the two files are in sync
ProgramKeypairPublicKey(name) ==
  IF idlInSync THEN ProgramIdOf(name) ELSE [t |-> "PublicKey", k |-> "keypair", name |-> name]

seedConfig == seedConfigs[planIdx]

\* ---------------------------------------------------------------------
\* The counter program of the README, as the chain runs it
\* ---------------------------------------------------------------------
Has(data, key) == \E q \in 1..Len(data) : data[q].key = key

Get(data, key) == data[CHOOSE q \in 1..Len(data) : data[q].key = key].val

\* seeds = [b"counter"], bump: the address the account constraint requires
CounterAddress(programId) ==
  findProgramAddressSync(<<[b |-> "utf8", str |-> sCounter]>>, programId).pk

HasAccount(ch, address) == \E a \in ch : a.address = address

\* pub authority: Signer: the wallet signs every transaction, a keypair of
\* the signers list signs too
IsSigner(c, key) ==
  \/ key = wallet
  \/ \E q \in 1..Len(c.signers) : c.signers[q].t = "Keypair" /\ PublicKeyOf(c.signers[q]) = key

\* the account constraints of Initialize and of Increment on the transaction
\* of call c; the program has no constraint for an instruction it does not
\* define
ProgramAccepts(ch, c, programId) ==
  IF c.function = "initialize"
  THEN /\ Has(c.accounts, sCounter) /\ Has(c.accounts, sAuthority)
       /\ Get(c.accounts, sCounter) = CounterAddress(programId)
       /\ ~HasAccount(ch, CounterAddress(programId))
       /\ IsSigner(c, Get(c.accounts, sAuthority))
       /\ Len(c.args) = 1 /\ c.args[1].val.t = "BN" /\ c.args[1].val.num >= 0
  ELSE IF c.function = "increment"
  THEN /\ Has(c.accounts, sCounter) /\ Has(c.accounts, sAuthority)
       /\ Get(c.accounts, sCounter) = CounterAddress(programId)
       /\ HasAccount(ch, CounterAddress(programId))
       /\ IsSigner(c, Get(c.accounts, sAuthority))
  ELSE TRUE

\* counter.count = initial_count; counter.authority = authority.key()
\* counter.count += 1
ApplyInstruction(ch, c, programId) ==
  IF c.function = "initialize"
  THEN ch \cup {[address |-> CounterAddress(programId), count |-> c.args[1].val.num,
                 authority |-> Get(c.accounts, sAuthority)]}
  ELSE IF c.function = "increment"
  THEN {IF a.address = CounterAddress(programId) THEN [a EXCEPT !.count = a.count + 1] ELSE a :
          a \in ch}
  ELSE ch

Ctx == [wallet |-> wallet, programId |-> ProgramIdOf(seedConfig.program)]

Init ==
  /\ chain = {}
  /\ wallet = WalletPublicKey
  /\ fetches = 0
  /\ seedConfigs \in PlanLists
  /\ options \in {[program |-> f] : f \in ProgramFilters}
  /\ pc = "runSeeds"
  /\ planIdx = 1
  /\ planState = [p \in 1..Len(seedConfigs) |-> "Idle"]
  /\ kind = "none"
  /\ i = 0
  /\ j = 0
  /\ generated = 0
  /\ calls = <<>>
  /\ lookups = <<>>
  /\ logs = "none"
  /\ submissions = 0
  /\ error = NoError
  /\ NoDeploy
  /\ SeedsLoaded
  /\ idlInSync = TRUE
  /\ OneRun

\* the runs of one plan with one call, over the values of its entries
InitResolve ==
  /\ chain = {}
  /\ wallet \in Wallets
  /\ fetches = 0
  /\ seedConfigs \in {<<pl>> : pl \in ResolvePlans}
  /\ options \in {[program |-> f] : f \in ProgramFilters}
  /\ pc = "runSeeds"
  /\ planIdx = 1
  /\ planState = [p \in 1..Len(seedConfigs) |-> "Idle"]
  /\ kind = "none"
  /\ i = 0
  /\ j = 0
  /\ generated = 0
  /\ calls = <<>>
  /\ lookups = <<>>
  /\ logs = "none"
  /\ submissions = 0
  /\ error = NoError
  /\ NoDeploy
  /\ SeedsLoaded
  /\ idlInSync = TRUE
  /\ OneRun

\* the run of the README example: the chain is fresh, or holds the counter
\* account of an earlier run
InitCounter ==
  /\ chain \in {{}, {[address |-> CounterAddress(ProgramIdOf(sCounter)), count |-> 2,
                      authority |-> WalletPublicKey]}}
  /\ wallet = WalletPublicKey
  /\ fetches = 0
  /\ seedConfigs \in {<<pl>> : pl \in CounterPlans}
  /\ options \in {[program |-> f] : f \in ProgramFilters \cup {Str(sCounter)}}
  /\ pc = "runSeeds"
  /\ planIdx = 1
  /\ planState = [p \in 1..Len(seedConfigs) |-> "Idle"]
  /\ kind = "none"
  /\ i = 0
  /\ j = 0
  /\ generated = 0
  /\ calls = <<>>
  /\ lookups = <<>>
  /\ logs = "none"
  /\ submissions = 0
  /\ error = NoError
  /\ NoDeploy
  /\ SeedsLoaded
  /\ idlInSync \in BOOLEAN
  /\ OneRun

\* ---------------------------------------------------------------------
\* runSeeds
\* ---------------------------------------------------------------------
\* Filtered with the comparison turned around
FilteredInverted(opts, plan) ==
  (CASE opts.program.t = "undefined" -> FALSE
     [] opts.program.t = "string" -> opts.program.str # <<>>
     [] OTHER -> TRUE)
  /\ plan.program = opts.program.str

\* the filter test of the loop of runSeeds
Filtered(opts, plan) == Truthy(opts.program) /\ plan.program # opts.program.str

\* runSeedsCatch throwing an error of its own in place of the one caught
runSeedsCatchWrapped(e) ==
  /\ pc' = "thrown"
  /\ error' = [t |-> "Error", msg |-> "Failed to seed"]
  /\ planState' = [planState EXCEPT ![planIdx] = "Failed"]
  /\ planIdx' = planIdx

\* runSeedsCatch logging the error and going on with the next plan
runSeedsCatchContinue(e) ==
  /\ pc' = "runSeeds"
  /\ error' = e
  /\ planState' = [planState EXCEPT ![planIdx] = "Failed"]
  /\ planIdx' = planIdx + 1

\* catch (error) { logger.error(...); throw error; } around seedProgram: the
\* error leaves runSeeds, the loop over the plans ends
runSeedsCatch(e) ==
  /\ pc' = "thrown"
  /\ error' = e
  /\ planState' = [planState EXCEPT ![planIdx] = "Failed"]
  /\ planIdx' = planIdx

\* RunSeedsReturn when a filter that matched no plan is an error
RunSeedsReturnUnknownProgram ==
  /\ pc = "runSeeds"
  /\ planIdx > Len(seedConfigs)
  /\ IF Truthy(options.program)
        /\ \A p \in 1..Len(seedConfigs) : seedConfigs[p].program # options.program.str
     THEN pc' = "thrown" /\ error' = [t |-> "Error", msg |-> "Program not found"]
     ELSE pc' = "returned" /\ UNCHANGED error
  /\ UNCHANGED <<logs, fetches, submissions, chain, wallet, seedConfigs, options, otherVars, planIdx, planState, kind, i, j, generated, calls,
                 lookups>>

\* the loop of runSeeds has no plan left
RunSeedsReturn ==
  /\ pc = "runSeeds"
  /\ planIdx > Len(seedConfigs)
  /\ pc' = "returned"
  /\ UNCHANGED <<logs, fetches, submissions, chain, wallet, seedConfigs, options, otherVars, planIdx, planState, kind, i, j, generated, calls,
                 lookups, error>>

\* if (options.program && seedConfig.program !== options.program) continue
RunSeedsSkip ==
  /\ pc = "runSeeds"
  /\ planIdx <= Len(seedConfigs)
  /\ Filtered(options, seedConfig)
  /\ planState' = [planState EXCEPT ![planIdx] = "Skipped"]
  /\ planIdx' = planIdx + 1
  /\ UNCHANGED <<logs, fetches, submissions, chain, wallet, seedConfigs, options, otherVars, pc, kind, i, j, generated, calls, lookups, error>>

\* await seedProgram(provider, seedConfig, config)
RunSeedsEnter ==
  /\ pc = "runSeeds"
  /\ planIdx <= Len(seedConfigs)
  /\ ~Filtered(options, seedConfig)
  /\ pc' = "seedProgram"
  /\ UNCHANGED <<logs, fetches, submissions, chain, wallet, seedConfigs, options, otherVars, planIdx, planState, kind, i, j, generated, calls,
                 lookups, error>>

\* ---------------------------------------------------------------------
\* seedProgram
\* ---------------------------------------------------------------------
Lookup(file) == [plan |-> planIdx, program |-> seedConfig.program, file |-> file]

\* !fs.existsSync(idlPath)
SeedProgramIdlMissing ==
  /\ pc = "seedProgram"
  /\ lookups' = Append(lookups, Lookup("idl"))
  /\ runSeedsCatch([t |-> "Error", msg |-> "IDL not found"])
  /\ UNCHANGED <<logs, fetches, submissions, chain, wallet, seedConfigs, options, otherVars, kind, i, j, generated, calls>>

\* the interface is read, !fs.existsSync(programKeypairPath)
SeedProgramKeypairMissing ==
  /\ pc = "seedProgram"
  /\ lookups' = lookups \o <<Lookup("idl"), Lookup("keypair")>>
  /\ runSeedsCatch([t |-> "Error", msg |-> "Program keypair not found"])
  /\ UNCHANGED <<logs, fetches, submissions, chain, wallet, seedConfigs, options, otherVars, kind, i, j, generated, calls>>

\* SeedProgramLoaded when only the interface file is looked for before the
\* calls are made
SeedProgramLoadedKeypairLater ==
  /\ pc = "seedProgram"
  /\ lookups' = Append(lookups, [plan |-> planIdx, program |-> seedConfig.program,
                                 file |-> "idl"])
  /\ pc' = "initialize"
  /\ UNCHANGED <<logs, fetches, submissions, chain, wallet, seedConfigs, options, otherVars, planIdx, planState,
                 kind, i, j, generated, calls, error>>

\* both files exist: the keypair is loaded and the Program is made
SeedProgramLoaded ==
  /\ pc = "seedProgram"
  /\ lookups' = lookups \o <<Lookup("idl"), Lookup("keypair")>>
  /\ pc' = "initialize"
  /\ UNCHANGED <<logs, fetches, submissions, chain, wallet, seedConfigs, options, otherVars, planIdx, planState, kind, i, j, generated, calls,
                 error>>

\* if (seedConfig.initialize) { await executeFunction(...) }
SeedProgramInitialize ==
  /\ pc = "initialize"
  /\ Truthy(seedConfig.initialize)
  /\ planState' = [planState EXCEPT ![planIdx] = "RunningInitialize"]
  /\ kind' = "initialize"
  /\ pc' = "executeFunction"
  /\ UNCHANGED <<logs, fetches, submissions, chain, wallet, seedConfigs, options, otherVars, planIdx, i, j, generated, calls, lookups, error>>

\* no initialize: on to if (seedConfig.seeds)
SeedProgramSkipInitialize ==
  /\ pc = "initialize"
  /\ ~Truthy(seedConfig.initialize)
  /\ planState' = [planState EXCEPT ![planIdx] = "RunningSeeds"]
  /\ pc' = "seeds"
  /\ i' = 0
  /\ j' = 0
  /\ UNCHANGED <<logs, fetches, submissions, chain, wallet, seedConfigs, options, otherVars, planIdx, kind, generated, calls, lookups, error>>

\* Repeat without the default of an absent count
RepeatNoDefault(seed) == IF seed.repeat.t = "number" THEN seed.repeat.num ELSE 0

\* const repeat = seed.repeat || 1
Repeat(seed) == IF Truthy(seed.repeat) THEN seed.repeat.num ELSE 1

HasSeed == Truthy(seedConfig.seeds) /\ i < Len(seedConfig.seeds.items)

\* SeedsCall with the loop test j <= repeat
SeedsCallOffByOne ==
  /\ pc = "seeds"
  /\ Truthy(seedConfig.seeds) /\ i < Len(seedConfig.seeds.items)
  /\ j <= (IF Truthy(seedConfig.seeds.items[i + 1].repeat)
           THEN seedConfig.seeds.items[i + 1].repeat.num ELSE 1)
  /\ kind' = "seed"
  /\ pc' = "executeFunction"
  /\ UNCHANGED <<logs, fetches, submissions, chain, wallet, seedConfigs, options, otherVars, planIdx,
                 planState, i, j, generated, calls, lookups, error>>

\* for (let j = 0; j < repeat; j++) { await executeFunction(...) }
SeedsCall ==
  /\ pc = "seeds"
  /\ HasSeed
  /\ j < Repeat(seedConfig.seeds.items[i + 1])
  /\ kind' = "seed"
  /\ pc' = "executeFunction"
  /\ UNCHANGED <<logs, fetches, submissions, chain, wallet, seedConfigs, options, otherVars, planIdx, planState, i, j, generated, calls, lookups,
                 error>>

\* SeedsEntryDone with the inner loop counter declared outside the loops: j
\* keeps its value when the next seed starts
SeedsEntryDoneStaleJ ==
  /\ pc = "seeds"
  /\ Truthy(seedConfig.seeds) /\ i < Len(seedConfig.seeds.items)
  /\ ~(j < (IF Truthy(seedConfig.seeds.items[i + 1].repeat)
            THEN seedConfig.seeds.items[i + 1].repeat.num ELSE 1))
  /\ i' = i + 1
  /\ j' = j
  /\ UNCHANGED <<logs, fetches, submissions, chain, wallet, seedConfigs, options, otherVars, pc, planIdx, planState, kind,
                 generated, calls, lookups, error>>

\* the iterations of seed i are over: i++
SeedsEntryDone ==
  /\ pc = "seeds"
  /\ HasSeed
  /\ ~(j < Repeat(seedConfig.seeds.items[i + 1]))
  /\ i' = i + 1
  /\ j' = 0
  /\ UNCHANGED <<logs, fetches, submissions, chain, wallet, seedConfigs, options, otherVars, pc, planIdx, planState, kind, generated, calls,
                 lookups, error>>

\* SeedsDone when seedProgram refuses a plan that made no call
SeedsDoneEmptyThrows ==
  /\ pc = "seeds"
  /\ ~(Truthy(seedConfig.seeds) /\ i < Len(seedConfig.seeds.items))
  /\ IF \E k \in 1..Len(calls) : calls[k].plan = planIdx
     THEN /\ planState' = [planState EXCEPT ![planIdx] = "Done"]
          /\ planIdx' = planIdx + 1
          /\ pc' = "runSeeds"
          /\ error' = error
     ELSE /\ planState' = [planState EXCEPT ![planIdx] = "Failed"]
          /\ planIdx' = planIdx
          /\ pc' = "thrown"
          /\ error' = [t |-> "Error", msg |-> "Nothing to seed"]
  /\ i' = 0
  /\ j' = 0
  /\ kind' = "none"
  /\ UNCHANGED <<logs, fetches, submissions, chain, wallet, seedConfigs, options, otherVars, generated,
                 calls, lookups>>

\* no seeds, or all of them ran: seedProgram returns, runSeeds goes on
SeedsDone ==
  /\ pc = "seeds"
  /\ ~HasSeed
  /\ planState' = [planState EXCEPT ![planIdx] = "Done"]
  /\ planIdx' = planIdx + 1
  /\ pc' = "runSeeds"
  /\ i' = 0
  /\ j' = 0
  /\ kind' = "none"
  /\ UNCHANGED <<logs, fetches, submissions, chain, wallet, seedConfigs, options, otherVars, generated, calls, lookups, error>>

\* ---------------------------------------------------------------------
\* executeFunction
\* ---------------------------------------------------------------------
\* the CallSpec seedProgram passes to executeFunction
CallSpecOf(plan, kd, idx) == IF kd = "initialize" THEN plan.initialize ELSE plan.seeds.items[idx + 1]

\* for (const [key, value] of Object.entries(resolvedAccounts))
\*   if (key.endsWith('_keypair')) signers.push(value)
RECURSIVE Signers(_)
Signers(data) ==
  IF data = <<>> THEN <<>>
  ELSE (IF EndsWith(Head(data).key, sKeypairSuffix) THEN <<Head(data).val>> ELSE <<>>)
       \o Signers(Tail(data))

\* tx: the number of the transaction method.rpc() submits for the call, 0
\* when the call does not get that far
\* fetch: the signature getParsedTransaction was asked for, 0 before that
CallRecord(status, accounts, args, report, tx, e) ==
  [plan |-> planIdx, kind |-> kind,
   entry |-> IF kind = "initialize" THEN 0 ELSE i,
   iteration |-> IF kind = "initialize" THEN 0 ELSE j,
   function |-> CallSpecOf(seedConfig, kind, i).function,
   status |-> status, accounts |-> accounts, args |-> args,
   signers |-> Signers(accounts), report |-> report, tx |-> tx, fetch |-> 0,
   error |-> e]

SetStatus(status, e) ==
  [calls EXCEPT ![Len(calls)].status = status, ![Len(calls)].error = e]

Error(msg) == [t |-> "Error", msg |-> msg]

\* provider.connection.getParsedTransaction(txSig, ...): the request is made
\* for txSig, the signature method.rpc() returned for this call
SetFetched(status, e) ==
  [calls EXCEPT ![Len(calls)].status = status, ![Len(calls)].error = e,
                ![Len(calls)].fetch = calls[Len(calls)].tx]

\* executeFunction throws before anything is submitted: resolution r failed
ResolveFails(r, accounts) ==
  /\ generated' = r.next
  /\ calls' = Append(calls, CallRecord("resolveFailed", accounts, <<>>, r.report, 0,
                                       Error(r.msg)))
  /\ runSeedsCatch(Error(r.msg))
  /\ UNCHANGED submissions

\* the methods of program.methods: the instructions of the interface file
\* of the program. The counter program has the two of the README; the
\* interfaces of the other programs have every function the plans name
IdlMethods(name) ==
  IF name = sCounter THEN {"initialize", "increment"}
  ELSE {"initialize", "increment", "mint", "f"}

\* (program.methods as any)[functionName](...processedArgs) with a name the
\* interface does not have: undefined is called, a TypeError
BindFails(ra, pa) ==
  /\ generated' = pa.next
  /\ calls' = Append(calls, CallRecord("bindFailed", ra.data, pa.data, Undefined, 0,
                                       Error("program.methods[functionName] is not a function")))
  /\ runSeedsCatch(Error("program.methods[functionName] is not a function"))
  /\ UNCHANGED submissions

\* Submit when the method is not looked up on the interface before the
\* transaction is sent
SubmitUnbound(ra, pa) ==
  IF ~pa.ok THEN ResolveFails(pa, ra.data)
  ELSE /\ generated' = pa.next
       /\ submissions' = submissions + 1
       /\ calls' = Append(calls, CallRecord("submitted", ra.data, pa.data, Undefined,
                                            submissions + 1, NoError))
       /\ pc' = "rpc"
       /\ UNCHANGED <<planIdx, planState, error>>

\* accounts ra and args pa are resolved: the method is bound, the signers are
\* collected and method.rpc() submits the transaction
Submit(ra, pa) ==
  IF ~pa.ok THEN ResolveFails(pa, ra.data)
  ELSE IF CallSpecOf(seedConfig, kind, i).function \notin IdlMethods(seedConfig.program)
  THEN BindFails(ra, pa)
  ELSE /\ generated' = pa.next
       /\ submissions' = submissions + 1
       /\ calls' = Append(calls, CallRecord("submitted", ra.data, pa.data, Undefined,
                                            submissions + 1, NoError))
       /\ pc' = "rpc"
       /\ UNCHANGED <<planIdx, planState, error>>

\* const processedArgs = processPlaceholders(program, provider, args, "args")
ResolveArgs(ra, cs) ==
  IF ~ra.ok THEN ResolveFails(ra, <<>>)
  ELSE Submit(ra, processPlaceholders(Ctx, cs.args, "args", ra.next))

\* the synchronous part of executeFunction: both processPlaceholders calls,
\* the signers, and the start of method.rpc()
ExecuteFunctionResolve ==
  /\ pc = "executeFunction"
  /\ ResolveArgs(processPlaceholders(Ctx, CallSpecOf(seedConfig, kind, i).accounts,
                                     "accounts", generated),
                 CallSpecOf(seedConfig, kind, i))
  /\ UNCHANGED <<logs, fetches, chain, wallet, seedConfigs, options, otherVars, kind, i, j, lookups>>

\* RpcConfirmed when the rest of executeFunction is not awaited: seedProgram
\* goes on as soon as the transaction is confirmed
RpcConfirmedNotAwaited ==
  /\ pc = "rpc"
  /\ calls' = [calls EXCEPT ![Len(calls)].status = "confirmed"]
  /\ pc' = "seeds"
  /\ planState' = [planState EXCEPT ![planIdx] = "RunningSeeds"]
  /\ i' = IF kind = "initialize" THEN 0 ELSE i
  /\ j' = IF kind = "initialize" THEN 0 ELSE j + 1
  /\ UNCHANGED <<logs, fetches, submissions, chain, wallet, seedConfigs, options, otherVars, planIdx, kind,
                 generated, lookups, error>>

\* RpcConfirmed without the await delay(1000): the transaction is fetched as
\* soon as it is confirmed
RpcConfirmedNoDelay ==
  /\ pc = "rpc"
  /\ ProgramAccepts(chain, calls[Len(calls)], Ctx.programId)
  /\ chain' = ApplyInstruction(chain, calls[Len(calls)], Ctx.programId)
  /\ calls' = SetStatus("confirmed", NoError)
  /\ pc' = "getParsedTransaction"
  /\ UNCHANGED <<logs, fetches, submissions, wallet, seedConfigs, options, otherVars, planIdx, planState, kind, i, j, generated, lookups,
                 error>>

\* await method.rpc(...) returns the signature of the confirmed transaction
RpcConfirmed ==
  /\ pc = "rpc"
  /\ ProgramAccepts(chain, calls[Len(calls)], Ctx.programId)
  /\ chain' = ApplyInstruction(chain, calls[Len(calls)], Ctx.programId)
  /\ calls' = SetStatus("confirmed", NoError)
  /\ pc' = "delay"
  /\ UNCHANGED <<logs, fetches, submissions, wallet, seedConfigs, options, otherVars, planIdx, planState, kind, i, j, generated, lookups,
                 error>>

\* RpcRejected when the rejection of an initialize call is logged and
\* seedProgram goes on to the seeds
RpcRejectedInitializeIgnored ==
  /\ pc = "rpc"
  /\ calls' = [calls EXCEPT ![Len(calls)].status = "rejected",
                            ![Len(calls)].error = [t |-> "Error", msg |-> "Transaction rejected"]]
  /\ IF kind = "initialize"
     THEN /\ pc' = "seeds"
          /\ planState' = [planState EXCEPT ![planIdx] = "RunningSeeds"]
          /\ i' = 0
          /\ j' = 0
          /\ UNCHANGED <<planIdx, error>>
     ELSE /\ pc' = "thrown"
          /\ error' = [t |-> "Error", msg |-> "Transaction rejected"]
          /\ planState' = [planState EXCEPT ![planIdx] = "Failed"]
          /\ UNCHANGED <<planIdx, i, j>>
  /\ UNCHANGED <<logs, fetches, submissions, chain, wallet, seedConfigs, options, otherVars, kind, generated, lookups>>

\* RpcRejected inside a retry loop: the rejected call is executed again
RpcRejectedRetried ==
  /\ pc = "rpc"
  /\ calls' = SetStatus("rejected", [t |-> "Error", msg |-> "Transaction rejected"])
  /\ pc' = "executeFunction"
  /\ UNCHANGED <<logs, fetches, submissions, chain, wallet, seedConfigs, options, otherVars, planIdx, planState,
                 kind, i, j, generated, lookups, error>>

\* await method.rpc(...) throws: the network rejected the transaction
RpcRejected ==
  /\ pc = "rpc"
  /\ calls' = SetStatus("rejected", Error("Transaction rejected"))
  /\ runSeedsCatch(Error("Transaction rejected"))
  /\ UNCHANGED <<logs, fetches, submissions, chain, wallet, seedConfigs, options, otherVars, kind, i, j, generated, lookups>>

\* await delay(1000)
DelayElapsed ==
  /\ pc = "delay"
  /\ pc' = "getParsedTransaction"
  /\ UNCHANGED <<logs, fetches, submissions, chain, wallet, seedConfigs, options, otherVars, planIdx, planState, kind, i, j, generated, calls,
                 lookups, error>>

\* executeFunction returns to seedProgram: after initialize the seeds loop
\* starts, after a seed iteration j++
executeFunctionReturn ==
  /\ pc' = "seeds"
  /\ IF kind = "initialize"
     THEN /\ planState' = [planState EXCEPT ![planIdx] = "RunningSeeds"]
          /\ i' = 0
          /\ j' = 0
     ELSE /\ planState' = planState
          /\ i' = i
          /\ j' = j + 1

\* what getParsedTransaction can answer for a confirmed signature: the
\* transaction with log messages, a transaction whose meta or whose
\* logMessages is null, or null
TransactionAnswers == {"logMessages", "noLogMessages", "null"}

\* let logs = tx?.meta?.logMessages || []
LogMessagesOf(tx) ==
  IF tx = "null" THEN <<>>
  ELSE IF tx = "noLogMessages" THEN <<>>
  ELSE <<"Program log: Instruction", "Program data: event">>

\* eventParser.parseLogs(logs): one event for each data line of the program
RECURSIVE parseLogs(_)
parseLogs(lines) ==
  IF lines = <<>> THEN <<>>
  ELSE (IF Head(lines) = "Program data: event" THEN <<Head(lines)>> ELSE <<>>)
       \o parseLogs(Tail(lines))

\* await provider.connection.getParsedTransaction(...) answers
GetParsedTransactionReturn ==
  /\ pc = "getParsedTransaction"
  /\ \E tx \in TransactionAnswers : logs' = tx
  /\ calls' = SetFetched("fetched", NoError)
  /\ fetches' = fetches + 1
  /\ pc' = "parseLogs"
  /\ UNCHANGED <<submissions, chain, wallet, seedConfigs, options, otherVars, planIdx, planState, kind, i, j,
                 generated, lookups, error>>

\* ParseLogs reading tx.meta.logMessages without the optional chaining: a
\* null transaction throws a TypeError
ParseLogsNoOptionalChaining ==
  /\ pc = "parseLogs"
  /\ IF logs = "null"
     THEN /\ calls' = SetStatus("parseFailed", [t |-> "Error", msg |-> "Cannot read properties of null"])
          /\ pc' = "thrown"
          /\ error' = [t |-> "Error", msg |-> "Cannot read properties of null"]
          /\ planState' = [planState EXCEPT ![planIdx] = "Failed"]
     ELSE /\ calls' = SetStatus("done", NoError)
          /\ pc' = "return"
          /\ UNCHANGED <<planState, error>>
  /\ UNCHANGED <<logs, fetches, submissions, chain, wallet, seedConfigs, options, otherVars, planIdx, kind,
                 i, j, generated, lookups>>

\* let logs = tx?.meta?.logMessages || []; every event parsed from the logs
\* is logged: the body of executeFunction is through
ParseLogs ==
  /\ pc = "parseLogs"
  /\ calls' = SetStatus("done", NoError)
  /\ pc' = "return"
  /\ UNCHANGED <<logs, fetches, submissions, chain, wallet, seedConfigs, options, otherVars, planIdx,
                 planState, kind, i, j, generated, lookups, error>>

\* the awaited executeFunction resolves and seedProgram goes on
ExecuteFunctionReturns ==
  /\ pc = "return"
  /\ logs' = "none"
  /\ executeFunctionReturn
  /\ UNCHANGED <<calls, fetches, submissions, chain, wallet, seedConfigs, options, otherVars, planIdx, kind,
                 generated, lookups, error>>

\* GetParsedTransactionThrows inside a retry loop: after a throw the delay
\* and the fetch are done again
GetParsedTransactionRetried ==
  /\ pc = "getParsedTransaction"
  /\ pc' = "delay"
  /\ UNCHANGED <<logs, fetches, submissions, chain, wallet, seedConfigs, options, otherVars,
                 planIdx, planState, kind, i, j, generated, calls, lookups, error>>

\* await provider.connection.getParsedTransaction(...) throws
GetParsedTransactionThrows ==
  /\ pc = "getParsedTransaction"
  /\ calls' = SetFetched("fetchFailed", Error("failed to get transaction"))
  /\ fetches' = fetches + 1
  /\ runSeedsCatch(Error("failed to get transaction"))
  /\ UNCHANGED <<logs, submissions, chain, wallet, seedConfigs, options, otherVars, kind, i, j, generated, lookups>>

Next ==
  \/ RunSeedsReturn
  \/ RunSeedsSkip
  \/ RunSeedsEnter
  \/ SeedProgramIdlMissing
  \/ SeedProgramKeypairMissing
  \/ SeedProgramLoaded
  \/ SeedProgramInitialize
  \/ SeedProgramSkipInitialize
  \/ SeedsCall
  \/ SeedsEntryDone
  \/ SeedsDone
  \/ ExecuteFunctionResolve
  \/ RpcConfirmed
  \/ RpcRejected
  \/ DelayElapsed
  \/ GetParsedTransactionReturn
  \/ ParseLogs
  \/ ExecuteFunctionReturns
  \/ GetParsedTransactionThrows

Spec == Init /\ [][Next]_vars

SpecResolve == InitResolve /\ [][Next]_vars

SpecCounter == InitCounter /\ [][Next]_vars

\* ---------------------------------------------------------------------
\* Observations used by the properties
\* ---------------------------------------------------------------------
Plans == 1..Len(seedConfigs)

IsCallOf(c, p) == c.plan = p

\* the invocations of executeFunction made for plan p, in order, as
\* <<kind, seed index, iteration>>
PlanCalls(p) ==
  LET own == SelectSeq(calls, LAMBDA c : c.plan = p)
  IN [k \in 1..Len(own) |-> <<own[k].kind, own[k].entry, own[k].iteration>>]

CallFailed(c) == c.status \in {"resolveFailed", "bindFailed", "rejected", "fetchFailed"}

HasInitialize(plan) == plan.initialize.t # "undefined"

SeedsOf(plan) == IF plan.seeds.t = "array" THEN plan.seeds.items ELSE <<>>

\* a repeat count as the plan states it: a positive integer, or absent
PositiveRepeat(seed) == seed.repeat.t = "number" /\ seed.repeat.num > 0
AbsentRepeat(seed) == seed.repeat.t = "undefined"
StatedRepeat(seed) == IF AbsentRepeat(seed) THEN 1 ELSE seed.repeat.num

\* s1 r1 times, then s2 r2 times, ..., from seed entry n on (0-based)
RECURSIVE SeedSchedule(_, _)
SeedSchedule(seeds, n) ==
  IF n >= Len(seeds) THEN <<>>
  ELSE [k \in 1..StatedRepeat(seeds[n + 1]) |-> <<"seed", n, k - 1>>]
       \o SeedSchedule(seeds, n + 1)

RECURSIVE SumRepeats(_, _)
SumRepeats(seeds, n) ==
  IF n >= Len(seeds) THEN 0 ELSE StatedRepeat(seeds[n + 1]) + SumRepeats(seeds, n + 1)

\* C1: a plan with an initialize step whose seed entries have positive repeat
\* counts (an absent count is 1) and whose calls all succeeded has invoked
\* executeFunction exactly 1 + r1 + ... + rn times, in the order initialize,
\* s1 r1 times, ..., sn rn times; at no time has initialize been invoked twice
\* or after a seed entry of its plan.
C1_SequencerOrder ==
  \A p \in Plans :
    LET plan == seedConfigs[p]
        done == PlanCalls(p)
    IN (HasInitialize(plan) /\ \A n \in 1..Len(SeedsOf(plan)) :
            PositiveRepeat(SeedsOf(plan)[n]) \/ AbsentRepeat(SeedsOf(plan)[n]))
       => /\ \A k \in 2..Len(done) : done[k][1] # "initialize"
          /\ planState[p] = "Done"
             => /\ done = <<<<"initialize", 0, 0>>>> \o SeedSchedule(SeedsOf(plan), 0)
                /\ Len(done) = 1 + SumRepeats(SeedsOf(plan), 0)

\* a plan with initialize and two seed entries, the first repeated, is Done
C1_Witness ==
  \E p \in Plans :
    /\ planState[p] = "Done"
    /\ HasInitialize(seedConfigs[p])
    /\ Len(SeedsOf(seedConfigs[p])) = 2
    /\ PositiveRepeat(SeedsOf(seedConfigs[p])[1])
    /\ SeedsOf(seedConfigs[p])[1].repeat.num >= 2
    /\ Len(PlanCalls(p)) >= 4

\* the plan and the seed entry a call belongs to
PlanOf(c) == seedConfigs[c.plan]

IsLaterStepOf(c, d) ==
  /\ d.plan = c.plan
  /\ d.kind = "seed"
  /\ \/ d.entry > c.entry
     \/ d.entry = c.entry /\ d.iteration > c.iteration

\* C2: when an iteration of seed entry i throws, no later iteration of entry i
\* and no entry after i of the same plan is executed, the plan is Failed, and
\* runSeeds has thrown the very error the call threw.
C2_SeedFailFast ==
  \A k \in 1..Len(calls) :
    (calls[k].kind = "seed" /\ CallFailed(calls[k]))
      => /\ \A m \in (k + 1)..Len(calls) : ~IsLaterStepOf(calls[k], calls[m])
         /\ planState[calls[k].plan] = "Failed"
         /\ pc = "thrown"
         /\ error = calls[k].error

\* the second iteration of a seed entry has thrown and its plan has a seed
\* entry after it
C2_Witness ==
  \E k \in 1..Len(calls) :
    /\ calls[k].kind = "seed"
    /\ CallFailed(calls[k])
    /\ calls[k].iteration = 1
    /\ calls[k].entry + 1 < Len(SeedsOf(PlanOf(calls[k])))

\* the seeds phase of plan p has been entered
SeedsEntered(p) ==
  \/ planState[p] \in {"RunningSeeds", "Done"}
  \/ \E k \in 1..Len(calls) : calls[k].plan = p /\ calls[k].kind = "seed"

\* C3: when the initialize call of a plan throws, the plan is Failed, none of
\* its seed entries is executed and runSeeds has thrown that error; the seeds
\* phase of a plan is entered only if the plan has no initialize step or its
\* initialize call has returned.
C3_InitializeFailure ==
  /\ \A k \in 1..Len(calls) :
       (calls[k].kind = "initialize" /\ CallFailed(calls[k]))
         => /\ planState[calls[k].plan] = "Failed"
            /\ pc = "thrown"
            /\ error = calls[k].error
            /\ ~SeedsEntered(calls[k].plan)
  /\ \A p \in Plans :
       SeedsEntered(p)
         => \/ ~HasInitialize(seedConfigs[p])
            \/ \E k \in 1..Len(calls) :
                 /\ calls[k].plan = p
                 /\ calls[k].kind = "initialize"
                 /\ calls[k].status = "done"

\* the initialize call of a plan that has seed entries has thrown
C3_Witness ==
  \E k \in 1..Len(calls) :
    /\ calls[k].kind = "initialize"
    /\ CallFailed(calls[k])
    /\ Len(SeedsOf(PlanOf(calls[k]))) >= 1
    /\ pc = "thrown"

\* C4: when options.program names a program, every call and every lookup of
\* an interface or keypair file is made for a plan of that program, and a plan
\* of another program is never entered.
C4_ProgramFilter ==
  Truthy(options.program)
    => /\ \A k \in 1..Len(calls) : PlanOf(calls[k]).program = options.program.str
       /\ \A k \in 1..Len(lookups) :
            /\ lookups[k].program = options.program.str
            /\ seedConfigs[lookups[k].plan].program = options.program.str
       /\ \A p \in Plans :
            seedConfigs[p].program # options.program.str
              => planState[p] \in {"Idle", "Skipped"}

\* a filtered run has returned after skipping a plan and running another
C4_Witness ==
  /\ Truthy(options.program)
  /\ pc = "returned"
  /\ \E p \in Plans : planState[p] = "Skipped"
  /\ \E p \in Plans : planState[p] = "Done" /\ Len(PlanCalls(p)) >= 2

\* the executions of seed entry n (0-based) of plan p
EntryCalls(p, n) ==
  SelectSeq(calls, LAMBDA c : c.plan = p /\ c.kind = "seed" /\ c.entry = n)

\* the loop of seedProgram is past seed entry n of plan p
EntryFinished(p, n) ==
  \/ planState[p] = "Done"
  \/ planIdx = p /\ planState[p] = "RunningSeeds" /\ pc = "seeds" /\ i > n

\* C5: a seed entry whose iterations are over without a failure has been
\* executed repeat times when repeat is a positive integer and once when
\* repeat is absent, and never more often before; every execution has
\* submitted a transaction of its own.
C5_RepeatCount ==
  /\ \A p \in Plans : \A n \in 0..(Len(SeedsOf(seedConfigs[p])) - 1) :
       LET seed == SeedsOf(seedConfigs[p])[n + 1]
           runs == EntryCalls(p, n)
       IN (PositiveRepeat(seed) \/ AbsentRepeat(seed))
            => /\ Len(runs) <= StatedRepeat(seed)
               /\ EntryFinished(p, n)
                    => /\ Len(runs) = StatedRepeat(seed)
                       /\ \A a \in 1..Len(runs) : runs[a].tx # 0
  /\ \A a, b \in 1..Len(calls) :
       (a # b /\ calls[a].tx # 0) => calls[a].tx # calls[b].tx
  /\ submissions = Cardinality({a \in 1..Len(calls) : calls[a].tx # 0})

\* a plan is Done that has an entry with repeat 2 or more and an entry without
\* a repeat count
C5_Witness ==
  \E p \in Plans :
    /\ planState[p] = "Done"
    /\ \E n \in 1..Len(SeedsOf(seedConfigs[p])) :
         /\ PositiveRepeat(SeedsOf(seedConfigs[p])[n])
         /\ SeedsOf(seedConfigs[p])[n].repeat.num >= 2
         /\ Len(EntryCalls(p, n - 1)) >= 2
    /\ \E n \in 1..Len(SeedsOf(seedConfigs[p])) :
         /\ AbsentRepeat(SeedsOf(seedConfigs[p])[n])
         /\ Len(EntryCalls(p, n - 1)) = 1

\* a public key of a keypair Keypair.generate() made
IsMintedKey(v) == v.t = "PublicKey" /\ v.k = "gen"

\* the original value starts with new: and no earlier rule takes it
IsNewPlaceholder(v) == v.t = "string" /\ StartsWith(v.str, sNewPrefix)

\* the slots <<call, context, position>> of the resolved accounts and args of
\* all calls, and the slots that hold a minted key
SlotsOf(k) ==
  {<<k, "accounts", q>> : q \in 1..Len(calls[k].accounts)}
    \cup {<<k, "args", q>> : q \in 1..Len(calls[k].args)}

SlotValue(sl) ==
  IF sl[2] = "accounts" THEN calls[sl[1]].accounts[sl[3]].val ELSE calls[sl[1]].args[sl[3]].val

MintedSlots ==
  {sl \in UNION {SlotsOf(k) : k \in 1..Len(calls)} : IsMintedKey(SlotValue(sl))}

\* C6: every execution of a call resolves its new: placeholders again: each
\* of them holds a minted key, and over all executions of the run no two
\* roles or arguments hold the key of the same generated keypair.
C6_FreshKeypairs ==
  /\ \A a, b \in MintedSlots : a # b => SlotValue(a).id # SlotValue(b).id
  /\ \A k \in 1..Len(calls) :
       calls[k].status # "resolveFailed"
         => LET cs == CallSpecOf(PlanOf(calls[k]), calls[k].kind, calls[k].entry)
            IN /\ \A q \in 1..Len(cs.accounts) :
                    IsNewPlaceholder(cs.accounts[q].val)
                      => /\ Has(calls[k].accounts, cs.accounts[q].key)
                         /\ IsMintedKey(Get(calls[k].accounts, cs.accounts[q].key))
               /\ \A q \in 1..Len(cs.args) :
                    IsNewPlaceholder(cs.args[q]) => IsMintedKey(calls[k].args[q].val)

\* the same seed entry with new: placeholders was executed twice and another
\* call with new: placeholders after it
C6_Witness ==
  /\ Cardinality(MintedSlots) >= 9
  /\ \E a, b \in 1..Len(calls) :
       /\ a # b
       /\ calls[a].plan = calls[b].plan
       /\ calls[a].kind = "seed" /\ calls[b].kind = "seed"
       /\ calls[a].entry = calls[b].entry
       /\ calls[a].status = "done" /\ calls[b].status = "done"

\* C10 as stated: after a plan has failed, the plans that follow it in the
\* list are still attempted, so that when runSeeds has ended none of them
\* that the filter lets through is left untouched.
C10_SiblingsAttempted ==
  pc \in {"returned", "thrown"}
    => \A p \in Plans : planState[p] = "Failed"
         => \A q \in (p + 1)..Len(seedConfigs) :
              ~Filtered(options, seedConfigs[q]) => planState[q] # "Idle"

\* C10 as amended: a failure while seeding a plan aborts the remaining steps
\* of that plan and ends runSeeds with that error; the plans that follow the
\* failing plan are not attempted (no lookup, no call), and at most one plan
\* of a run is Failed.
C10_FailureEndsRun ==
  \A p \in Plans :
    planState[p] = "Failed"
      => /\ pc = "thrown"
         /\ planIdx = p
         /\ error # NoError
         /\ \A q \in (p + 1)..Len(seedConfigs) :
              /\ planState[q] = "Idle"
              /\ \A k \in 1..Len(calls) : calls[k].plan # q
              /\ \A k \in 1..Len(lookups) : lookups[k].plan # q
         /\ \A q \in 1..(p - 1) : planState[q] \in {"Done", "Skipped"}
         /\ \A k \in 1..Len(calls) :
              (calls[k].plan = p /\ CallFailed(calls[k])) => k = Len(calls)

\* a call of a plan has thrown and a plan the filter lets through follows it
C10_Witness ==
  \E p \in Plans :
    /\ planState[p] = "Failed"
    /\ Len(calls) >= 1 /\ calls[Len(calls)].plan = p /\ CallFailed(calls[Len(calls)])
    /\ p < Len(seedConfigs)
    /\ ~Filtered(options, seedConfigs[p + 1])

\* the number of the first rule of the ordered list that matches value v
RuleOf(v) ==
  IF v.t \notin {"string", "number", "bigint"} THEN 1
  ELSE IF v.t \in {"number", "bigint"} THEN 2
  ELSE IF NewPublicKey(v.str).ok THEN 3
  ELSE IF v.str \in {sSigner, sPayer} THEN 4
  ELSE IF v.str = sSystemProgram THEN 5
  ELSE IF v.str = sRent THEN 6
  ELSE IF StartsWith(v.str, sNewPrefix) THEN 7
  ELSE IF StartsWith(v.str, sPdaPrefix) THEN 8
  ELSE 9

\* out is what rule RuleOf(v) makes of v in context type for program prog
RuleGives(v, type, prog, out) ==
  CASE RuleOf(v) = 1 -> out = v
    [] RuleOf(v) = 2 -> out.t = "BN" /\ out.num = v.num
    [] RuleOf(v) = 3 -> /\ out.t = "PublicKey" /\ out.k = "bytes"
                        /\ out.bytes = B58Decode(v.str).bytes
    [] RuleOf(v) = 4 -> out = wallet
    [] RuleOf(v) = 5 -> /\ out.t = "PublicKey" /\ out.k = "bytes"
                        /\ out.bytes = [b \in 1..PUBLIC_KEY_LENGTH |-> 0]
    [] RuleOf(v) = 6 -> out = SYSVAR_RENT_PUBKEY
    [] RuleOf(v) = 7 -> IsMintedKey(out)
    [] RuleOf(v) = 8 -> out.t = "PublicKey" /\ out.k = "pda" /\ out.program = ProgramIdOf(prog)
    [] OTHER -> IF type = "args" THEN out = v
                ELSE /\ NewPublicKey(v.str).ok
                     /\ out = NewPublicKey(v.str).pk

\* rule RuleOf(v) may throw: a derivation, or the parse of the default rule
RuleMayThrow(v, type) ==
  \/ RuleOf(v) = 8
  \/ RuleOf(v) = 9 /\ type = "accounts" /\ ~NewPublicKey(v.str).ok

\* the last later new: entry of the map that registers its keypair under the
\* key of entry q, 0 if there is none
CoSignerOver(entries, q) ==
  LET later == {r \in (q + 1)..Len(entries) :
                  /\ entries[q].key = entries[r].key \o sKeypairSuffix
                  /\ RuleOf(entries[r].val) = 7}
  IN IF later = {} THEN 0 ELSE CHOOSE r \in later : \A x \in later : x <= r

\* the resolved map data holds for every entry what its rule gives; rule 7
\* stores the keypair under role + _keypair, also when an earlier entry
\* of the accounts map has that key
Conforms(entries, type, prog, data) ==
  \A q \in 1..Len(entries) :
    /\ Has(data, entries[q].key)
    /\ IF type = "accounts" /\ CoSignerOver(entries, q) # 0
       THEN /\ Get(data, entries[q].key).t = "Keypair"
            /\ PublicKeyOf(Get(data, entries[q].key))
                 = Get(data, entries[CoSignerOver(entries, q)].key)
       ELSE RuleGives(entries[q].val, type, prog, Get(data, entries[q].key))

\* the resolution that threw stopped at an entry whose rule may throw
ThrowConforms(entries, type, report) ==
  \E q \in 1..Len(entries) :
    /\ entries[q].key = report.key
    /\ entries[q].val = report.val
    /\ RuleMayThrow(entries[q].val, type)

\* C7: for every value of an accounts map or an args list, what
\* processPlaceholders stores for it is what the first matching rule of the
\* ordered list gives: pass through, BN, the address, the wallet, the system
\* program, the rent sysvar, a minted key, a derived address, the default
\* rule; and a resolution that throws stops at a rule that may throw.
C7_FirstMatchWins ==
  \A k \in 1..Len(calls) :
    LET c == calls[k]
        cs == CallSpecOf(PlanOf(c), c.kind, c.entry)
        prog == PlanOf(c).program
        argEntries == ObjectEntries(cs.args, "args")
    IN IF c.status # "resolveFailed"
       THEN /\ Conforms(cs.accounts, "accounts", prog, c.accounts)
            /\ Conforms(argEntries, "args", prog, c.args)
       ELSE IF c.report.type = "accounts"
       THEN ThrowConforms(cs.accounts, "accounts", c.report)
       ELSE /\ Conforms(cs.accounts, "accounts", prog, c.accounts)
            /\ ThrowConforms(argEntries, "args", c.report)

\* an address string was resolved as an argument and a new: string as an
\* account of a call that went through
C7_Witness ==
  \E k \in 1..Len(calls) :
    /\ calls[k].status = "done"
    /\ Len(CallSpecOf(PlanOf(calls[k]), calls[k].kind, calls[k].entry).args) = 1
    /\ CallSpecOf(PlanOf(calls[k]), calls[k].kind, calls[k].entry).args[1] = Str(sSysvarRent)
    /\ calls[k].args[1].val = SYSVAR_RENT_PUBKEY
    /\ IsMintedKey(calls[k].accounts[1].val)

\* the accounts of call c were resolved, its args were resolved
AccountsResolved(c) == c.status # "resolveFailed" \/ c.report.type = "args"
ArgsResolved(c) == c.status # "resolveFailed"

\* C8: a new: placeholder registers a co-signer if and only if it is resolved
\* as an account: the resolved accounts hold under role + _keypair a keypair
\* whose public key is the address resolved for the role; as an argument it
\* resolves to a minted public key and adds no entry and no signer.
C8_NewRegistersCoSigner ==
  \A k \in 1..Len(calls) :
    LET c == calls[k]
        cs == CallSpecOf(PlanOf(c), c.kind, c.entry)
    IN /\ AccountsResolved(c)
            => \A q \in 1..Len(cs.accounts) :
                 RuleOf(cs.accounts[q].val) = 7
                   => /\ Has(c.accounts, cs.accounts[q].key \o sKeypairSuffix)
                      /\ Get(c.accounts, cs.accounts[q].key \o sKeypairSuffix).t = "Keypair"
                      /\ PublicKeyOf(Get(c.accounts, cs.accounts[q].key \o sKeypairSuffix))
                           = Get(c.accounts, cs.accounts[q].key)
       /\ ArgsResolved(c)
            => \A q \in 1..Len(cs.args) :
                 RuleOf(cs.args[q]) = 7
                   => /\ IsMintedKey(c.args[q].val)
                      /\ Len(c.args) = Len(cs.args)
                      /\ \A r \in 1..Len(c.args) : ~EndsWith(c.args[r].key, sKeypairSuffix)
                      /\ \A r \in 1..Len(c.signers) :
                           c.signers[r].t = "Keypair" => c.signers[r].id # c.args[q].val.id

\* C9: a string that matches no placeholder shape is, as an argument, passed
\* through unchanged and never the entry a resolution throws at; as an
\* account it is parsed as an address, and when the parse fails the call is
\* not submitted: resolution throws at that entry or at one before it. No
\* resolved account is a plain string.
C9_DefaultRule ==
  \A k \in 1..Len(calls) :
    LET c == calls[k]
        cs == CallSpecOf(PlanOf(c), c.kind, c.entry)
    IN /\ \A q \in 1..Len(cs.args) :
            RuleOf(cs.args[q]) = 9
              => /\ ArgsResolved(c) => c.args[q].val = cs.args[q]
                 /\ ~(c.status = "resolveFailed" /\ c.report.type = "args"
                      /\ c.report.key = NumberToString(q - 1))
       /\ \A q \in 1..Len(cs.accounts) :
            RuleOf(cs.accounts[q].val) = 9
              => IF NewPublicKey(cs.accounts[q].val.str).ok
                 THEN AccountsResolved(c)
                        => Get(c.accounts, cs.accounts[q].key)
                             = NewPublicKey(cs.accounts[q].val.str).pk
                 ELSE /\ c.status = "resolveFailed"
                      /\ c.report.type = "accounts"
                      /\ c.tx = 0
                      /\ \E r \in 1..q : c.report.key = cs.accounts[r].key
       /\ \A q \in 1..Len(c.accounts) : c.accounts[q].val.t # "string"

\* resolution has thrown at an account that is a plain name and runSeeds has
\* thrown
C9_Witness ==
  \E k \in 1..Len(calls) :
    /\ calls[k].status = "resolveFailed"
    /\ calls[k].report.type = "accounts"
    /\ calls[k].report.val = Str(sBob)
    /\ pc = "thrown"

\* ---------------------------------------------------------------------
\* Address derivation
\* ---------------------------------------------------------------------
\* the source value of call c is a derivation placeholder
IsPdaPlaceholder(v) ==
  /\ v.t = "string"
  /\ StartsWith(v.str, sPdaPrefix)
  /\ RuleOf(v) = 8

\* the seed list a seed spec stands for, fragment by fragment: signer is the
\* identity of the caller, a pda: fragment the address derived from it, any
\* other fragment its own text
RECURSIVE ExpectedSeed(_, _, _)
RECURSIVE ExpectedAddress(_, _, _)
ExpectedSeed(f, caller, programId) ==
  IF f = sSigner THEN [b |-> "key", pk |-> caller]
  ELSE IF StartsWith(f, sPdaPrefix)
  THEN [b |-> "key", pk |-> ExpectedAddress(f, caller, programId)]
  ELSE [b |-> "utf8", str |-> f]

ExpectedSeeds(text, caller, programId) ==
  [q \in 1..Len(Split(StripPdaPrefix(text))) |->
     ExpectedSeed(Split(StripPdaPrefix(text))[q], caller, programId)]

ExpectedAddress(text, caller, programId) ==
  [t |-> "PublicKey", k |-> "pda", seeds |-> ExpectedSeeds(text, caller, programId),
   program |-> programId]

\* the derivation primitive refuses the seed list of the spec
SeedTooLong(text, caller, programId) ==
  \E q \in 1..Len(ExpectedSeeds(text, caller, programId)) :
    BufferLength(ExpectedSeeds(text, caller, programId)[q]) > MAX_SEED_LENGTH

\* the slots of call k that hold a resolved value, without the roles a later
\* new: entry overwrote with its keypair
ResolvedSlots(k) ==
  {<<k, "accounts", q>> : q \in {r \in 1..Len(CallSpecOf(PlanOf(calls[k]), calls[k].kind,
                                                          calls[k].entry).accounts) :
                                   /\ AccountsResolved(calls[k])
                                   /\ CoSignerOver(CallSpecOf(PlanOf(calls[k]), calls[k].kind,
                                                              calls[k].entry).accounts, r) = 0}}
    \cup {<<k, "args", q>> : q \in {r \in 1..Len(calls[k].args) : ArgsResolved(calls[k])}}

\* the value of the plan the slot was resolved from, and the value resolved
SlotSource(sl) ==
  IF sl[2] = "accounts"
  THEN CallSpecOf(PlanOf(calls[sl[1]]), calls[sl[1]].kind, calls[sl[1]].entry).accounts[sl[3]].val
  ELSE CallSpecOf(PlanOf(calls[sl[1]]), calls[sl[1]].kind, calls[sl[1]].entry).args[sl[3]]

SlotResolved(sl) ==
  IF sl[2] = "accounts"
  THEN Get(calls[sl[1]].accounts,
           CallSpecOf(PlanOf(calls[sl[1]]), calls[sl[1]].kind,
                      calls[sl[1]].entry).accounts[sl[3]].key)
  ELSE calls[sl[1]].args[sl[3]].val

SlotProgram(sl) == ProgramIdOf(PlanOf(calls[sl[1]]).program)

PdaSlots == {sl \in UNION {ResolvedSlots(k) : k \in 1..Len(calls)} :
               IsPdaPlaceholder(SlotSource(sl))}

\* C11: the address resolved for a pda: placeholder is the program address
\* derived from the program of the plan and one seed per comma-separated
\* fragment of the text after pda:, in order: the caller's key for signer,
\* the derived address for a pda: fragment, the text itself for any other;
\* resolution throws at a pda: placeholder only when a seed is too long.
C11_SeedList ==
  /\ \A sl \in PdaSlots :
       /\ SlotResolved(sl) = ExpectedAddress(SlotSource(sl).str, wallet, SlotProgram(sl))
       /\ ~SeedTooLong(SlotSource(sl).str, wallet, SlotProgram(sl))
  /\ \A k \in 1..Len(calls) :
       (calls[k].status = "resolveFailed" /\ IsPdaPlaceholder(calls[k].report.val))
         => SeedTooLong(calls[k].report.val.str, wallet, ProgramIdOf(PlanOf(calls[k]).program))

\* a call went through whose account is derived from a text and the caller
\* and whose argument is derived from a nested address and a text
C11_Witness ==
  \E k \in 1..Len(calls) :
    /\ calls[k].status = "done"
    /\ <<k, "accounts", 1>> \in PdaSlots
    /\ <<k, "args", 1>> \in PdaSlots
    /\ SlotSource(<<k, "accounts", 1>>) = Str(sPdaVaultSigner)
    /\ SlotSource(<<k, "args", 1>>) = Str(sPdaNested)
    /\ SlotResolved(<<k, "accounts", 1>>).seeds
         = <<[b |-> "utf8", str |-> <<"v","a","u","l","t">>], [b |-> "key", pk |-> wallet]>>
    /\ SlotResolved(<<k, "args", 1>>).seeds[1].b = "key"

RECURSIVE MentionsSigner(_)
MentionsSigner(text) ==
  \E q \in 1..Len(Split(StripPdaPrefix(text))) :
    \/ Split(StripPdaPrefix(text))[q] = sSigner
    \/ /\ StartsWith(Split(StripPdaPrefix(text))[q], sPdaPrefix)
       /\ MentionsSigner(Split(StripPdaPrefix(text))[q])

\* what the derivation gives for the seed spec of slot sl when another
\* identity calls it for the same program
DerivedFor(sl, caller) ==
  processPda(SlotSource(sl).str, [wallet |-> caller, programId |-> SlotProgram(sl)])

\* C13: derivation is caller-sensitive: the address resolved from a seed spec
\* with a signer fragment differs from the one any other caller gets from the
\* same spec and program; a seed spec without a signer fragment gives every
\* caller the address that was resolved.
C13_CallerSensitive ==
  \A sl \in PdaSlots : \A other \in Wallets \ {wallet} :
    /\ DerivedFor(sl, other).ok
    /\ MentionsSigner(SlotSource(sl).str) => DerivedFor(sl, other).pk # SlotResolved(sl)
    /\ ~MentionsSigner(SlotSource(sl).str) => DerivedFor(sl, other).pk = SlotResolved(sl)

\* the second wallet ran a call whose account is derived from a text and the
\* caller and whose argument is derived from a text alone
C13_Witness ==
  \E k \in 1..Len(calls) :
    /\ wallet = OtherWalletPublicKey
    /\ calls[k].status = "done"
    /\ <<k, "accounts", 1>> \in PdaSlots
    /\ <<k, "args", 1>> \in PdaSlots
    /\ SlotSource(<<k, "accounts", 1>>) = Str(sPdaVaultSigner)
    /\ SlotSource(<<k, "args", 1>>) = Str(sPdaVault)
    /\ SlotResolved(<<k, "accounts", 1>>).seeds[2].pk = OtherWalletPublicKey
    /\ DerivedFor(<<k, "accounts", 1>>, WalletPublicKey).pk.seeds[2].pk = WalletPublicKey

\* the seed spec of slot sl with the prefix of its first fragment dropped:
\* pda:x,y for pda:pda:x,y
FlatSpec(text) == sPdaPrefix \o StripPdaPrefix(StripPdaPrefix(text))

\* the first fragment of the seed spec is itself a seed spec
IsNestedSpec(text) == StartsWith(StripPdaPrefix(text), sPdaPrefix)

\* C14: a fragment that starts with pda: enters the outer seed list as one
\* seed, the derived address of that fragment for the same program, so the
\* list has one seed per fragment; the address resolved for pda:pda:x,y is
\* not the one pda:x,y gives.
C14_NestedDerivation ==
  \A sl \in PdaSlots :
    /\ Len(SlotResolved(sl).seeds) = Len(Split(StripPdaPrefix(SlotSource(sl).str)))
    /\ \A q \in 1..Len(Split(StripPdaPrefix(SlotSource(sl).str))) :
         StartsWith(Split(StripPdaPrefix(SlotSource(sl).str))[q], sPdaPrefix)
           => /\ SlotResolved(sl).seeds[q].b = "key"
              /\ SlotResolved(sl).seeds[q].pk.k = "pda"
              /\ SlotResolved(sl).seeds[q].pk.program = SlotProgram(sl)
              /\ BufferLength(SlotResolved(sl).seeds[q]) = PUBLIC_KEY_LENGTH
    /\ IsNestedSpec(SlotSource(sl).str)
         => \A caller \in Wallets :
              processPda(FlatSpec(SlotSource(sl).str),
                         [wallet |-> caller, programId |-> SlotProgram(sl)]).pk
                # SlotResolved(sl)

\* a call went through with the account pda:pda:x,y and the argument pda:x,y:
\* the first seed of the account is the address derived from x alone
C14_Witness ==
  \E k \in 1..Len(calls) :
    /\ calls[k].status = "done"
    /\ <<k, "accounts", 1>> \in PdaSlots
    /\ <<k, "args", 1>> \in PdaSlots
    /\ SlotSource(<<k, "accounts", 1>>) = Str(sPdaNested)
    /\ SlotSource(<<k, "args", 1>>) = Str(sPdaXY)
    /\ SlotResolved(<<k, "accounts", 1>>).seeds[1].pk.seeds = <<[b |-> "utf8", str |-> <<"x">>]>>
    /\ SlotResolved(<<k, "accounts", 1>>).seeds[2] = [b |-> "utf8", str |-> <<"y">>]
    /\ SlotResolved(<<k, "args", 1>>).seeds
         = <<[b |-> "utf8", str |-> <<"x">>], [b |-> "utf8", str |-> <<"y">>]>>

\* C15: the colon-separated form is taken as several seeds: the address
\* resolved for pda:vault:signer is the one derived from the text vault and
\* the caller's key, the address of pda:vault,signer.
C15_ColonForm ==
  \A sl \in PdaSlots :
    SlotSource(sl) = Str(sPdaVaultColonSigner)
      => /\ SlotResolved(sl).seeds
              = <<[b |-> "utf8", str |-> <<"v","a","u","l","t">>], [b |-> "key", pk |-> wallet]>>
         /\ SlotResolved(sl) = ExpectedAddress(sPdaVaultSigner, wallet, SlotProgram(sl))

\* ---------------------------------------------------------------------
\* The steps of executeFunction after the submission
\* ---------------------------------------------------------------------
\* the log fetch of the call in progress gave no log messages
NoLogs == logs \in {"null", "noLogMessages"}

\* C16: when getParsedTransaction answers null, or a transaction without log
\* messages, the call is still a success: no event is parsed, the call ends
\* done without an error, executeFunction returns and seedProgram goes on
\* with the seeds loop (after initialize) or the next repetition (j + 1).
C16_NoLogsStillSuccess ==
  /\ []((pc = "return" /\ NoLogs)
          => /\ parseLogs(LogMessagesOf(logs)) = <<>>
             /\ calls[Len(calls)].status = "done"
             /\ calls[Len(calls)].error = NoError
             /\ planState[planIdx] # "Failed")
  /\ [][(pc = "parseLogs" /\ NoLogs) => (pc' = "return" /\ error' = error)]_vars
  /\ [][(pc = "return" /\ NoLogs)
          => /\ pc' = "seeds"
             /\ error' = error
             /\ planState'[planIdx] = "RunningSeeds"
             /\ calls' = calls
             /\ IF kind = "initialize" THEN i' = 0 /\ j' = 0 ELSE i' = i /\ j' = j + 1]_vars

\* a seed call whose log fetch answered null is done, with a repetition of
\* its entry still to come
C16_Witness ==
  /\ pc = "return"
  /\ logs = "null"
  /\ kind = "seed"
  /\ calls[Len(calls)].status = "done"
  /\ calls[Len(calls)].iteration = 0
  /\ Repeat(seedConfig.seeds.items[i + 1]) > 1

\* the executions of executeFunction the plans from p on schedule
RECURSIVE Scheduled(_)
Scheduled(p) ==
  IF p > Len(seedConfigs) THEN 0
  ELSE (IF HasInitialize(seedConfigs[p]) THEN 1 ELSE 0)
       + SumRepeats(SeedsOf(seedConfigs[p]), 0) + Scheduled(p + 1)

Submitted == {k \in 1..Len(calls) : calls[k].tx # 0}
Fetched == {k \in 1..Len(calls) : calls[k].status \in {"fetched", "done", "fetchFailed"}}

\* C17: no retries: every execution of a call submits at most one
\* transaction, its own, and fetches the logs at most once; a scheduled
\* execution is made at most once, nothing is executed after a call that
\* failed, and there are never more submissions than scheduled executions.
C17_NoRetries ==
  /\ submissions = Cardinality(Submitted)
  /\ \A a \in Submitted : \A b \in Submitted : calls[a].tx = calls[b].tx => a = b
  /\ fetches = Cardinality(Fetched)
  /\ Fetched \subseteq Submitted
  /\ \A a \in 1..Len(calls) : \A b \in 1..Len(calls) :
       (/\ calls[a].plan = calls[b].plan /\ calls[a].kind = calls[b].kind
        /\ calls[a].entry = calls[b].entry /\ calls[a].iteration = calls[b].iteration)
         => a = b
  /\ \A k \in 1..Len(calls) : CallFailed(calls[k]) => k = Len(calls)
  /\ Len(calls) <= Scheduled(1)
  /\ submissions <= Scheduled(1)

\* the run has thrown at a rejected submission that came after two calls
\* that went through, with calls of the schedule left
C17_Witness ==
  /\ pc = "thrown"
  /\ Len(calls) = 3
  /\ calls[3].status = "rejected"
  /\ submissions = 3
  /\ fetches = 2
  /\ Scheduled(1) > 3

\* a call that is submitted and has not yet returned or thrown
InProgress(c) == c.status \in {"submitted", "confirmed", "fetched"}

\* C19: execution is strictly sequential: the plans are entered in the order
\* of the list, one at a time (those before the current one are finished,
\* those after it untouched); at most one call is in progress, the last one;
\* a call is started only when every call before it is done, and a call goes
\* through rpc, the delay and the log fetch in this order.
C19_Sequential ==
  /\ [](/\ \A a \in 1..Len(calls) : \A b \in a..Len(calls) : calls[a].plan <= calls[b].plan
        /\ \A a \in 1..Len(lookups) : \A b \in a..Len(lookups) :
             lookups[a].plan <= lookups[b].plan
        /\ \A p \in Plans :
             /\ p < planIdx => planState[p] \in {"Done", "Skipped"}
             /\ p > planIdx => planState[p] = "Idle"
        /\ \A k \in 1..Len(calls) :
             /\ InProgress(calls[k]) => k = Len(calls)
             /\ k < Len(calls) => calls[k].status = "done"
        /\ (calls # <<>> /\ InProgress(calls[Len(calls)]))
             => pc \in {"rpc", "delay", "getParsedTransaction", "parseLogs"})
  /\ [][/\ planIdx' \in {planIdx, planIdx + 1}
        /\ Len(calls') > Len(calls)
             => /\ pc = "executeFunction"
                /\ calls # <<>> => calls[Len(calls)].status = "done"
        /\ pc' = "delay" => pc = "rpc"
        /\ pc' = "getParsedTransaction" => pc = "delay"
        /\ pc' = "parseLogs" => pc = "getParsedTransaction"
        /\ pc' = "return" => pc = "parseLogs"]_vars

\* the second plan of the list has a call in its settling delay, after the
\* calls of the first plan
C19_Witness ==
  /\ planIdx = 2
  /\ pc = "delay"
  /\ Len(calls) >= 3
  /\ calls[1].plan = 1
  /\ calls[Len(calls)].plan = 2
  /\ calls[Len(calls)].status = "confirmed"
  /\ planState[1] = "Done"

\* the error seedProgram throws for a missing file
ConfigurationErrors ==
  {[t |-> "Error", msg |-> "IDL not found"], [t |-> "Error", msg |-> "Program keypair not found"]}

\* both files of plan p were looked for
FilesFound(p) ==
  /\ \E a \in 1..Len(lookups) : lookups[a].plan = p /\ lookups[a].file = "idl"
  /\ \E a \in 1..Len(lookups) : lookups[a].plan = p /\ lookups[a].file = "keypair"

\* C20: a missing interface file or program keypair file is fatal before any
\* chain interaction of the plan: seedProgram throws from its file checks
\* without a call, the failed plan has no call and no submission at all, and
\* a call of a plan is made only after both files were found.
C20_ConfigurationErrors ==
  /\ []((pc = "thrown" /\ error \in ConfigurationErrors)
          => /\ planState[planIdx] = "Failed"
             /\ \A k \in 1..Len(calls) : calls[k].plan # planIdx
             /\ \A k \in 1..Len(calls) : calls[k].status = "done")
  /\ [](\A k \in 1..Len(calls) : FilesFound(calls[k].plan))
  /\ [][error' \in ConfigurationErrors
          => /\ pc = "seedProgram"
             /\ pc' = "thrown"
             /\ calls' = calls
             /\ submissions' = submissions
             /\ fetches' = fetches]_vars

\* the second plan has thrown for its missing keypair file after the first
\* plan made its calls
C20_Witness ==
  /\ pc = "thrown"
  /\ error = [t |-> "Error", msg |-> "Program keypair not found"]
  /\ planIdx = 2
  /\ planState = <<"Done", "Failed">>
  /\ HasInitialize(seedConfigs[2])
  /\ submissions = Len(calls)
  /\ Len(calls) > 0

\* ---------------------------------------------------------------------
\* The counter example end to end
\* ---------------------------------------------------------------------
\* the accounts of the chain at the counter address of the plan's program
CounterAccounts == {a \in chain : a.address = CounterAddress(ProgramIdOf(seedConfigs[1].program))}

\* C18: the counter plan (initialize with count 0 on pda:counter, one seed
\* entry increment on pda:counter with repeat N) run once with every
\* submission accepted makes exactly N + 1 submissions, each naming the one
\* derived counter account, and leaves that account with the count N.
C18_CounterScenario ==
  (/\ pc = "returned"
   /\ HasInitialize(seedConfigs[1])
   /\ planState[1] = "Done")
    => /\ submissions = StatedRepeat(SeedsOf(seedConfigs[1])[1]) + 1
       /\ Len(calls) = submissions
       /\ \A k \in 1..Len(calls) :
            /\ calls[k].status = "done"
            /\ calls[k].tx = k
            /\ Get(calls[k].accounts, sCounter)
                 = CounterAddress(ProgramIdOf(seedConfigs[1].program))
       /\ Cardinality(CounterAccounts) = 1
       /\ \A a \in CounterAccounts :
            /\ a.count = StatedRepeat(SeedsOf(seedConfigs[1])[1])
            /\ a.authority = wallet

\* the plan with repeat 5 is through: six submissions, the count is 5
C18_Witness ==
  /\ pc = "returned"
  /\ HasInitialize(seedConfigs[1])
  /\ planState[1] = "Done"
  /\ seedConfigs[1].seeds.items[1].repeat = Num(5)
  /\ submissions = 6
  /\ \E a \in chain : a.count = 5

\* ---------------------------------------------------------------------
\* Plans without calls
\* ---------------------------------------------------------------------
\* the plan has neither initialize nor seeds
IsEmptyPlan(plan) == ~HasInitialize(plan) /\ plan.seeds.t = "undefined"

NewRoles(cs) == {q \in 1..Len(cs.accounts) : RuleOf(cs.accounts[q].val) = 7}

\* the signers of call c are keypairs, one for each role in roles and each
\* of them the keypair of the address resolved for such a role
SignersAre(c, cs, roles) ==
  /\ Len(c.signers) = Cardinality(roles)
  /\ \A r \in 1..Len(c.signers) :
       /\ c.signers[r].t = "Keypair"
       /\ \E q \in roles : PublicKeyOf(c.signers[r]) = Get(c.accounts, cs.accounts[q].key)
  /\ \A q \in roles : \E r \in 1..Len(c.signers) :
       /\ c.signers[r].t = "Keypair"
       /\ PublicKeyOf(c.signers[r]) = Get(c.accounts, cs.accounts[q].key)

\* C22: the co-signers of a call's transaction are exactly the keypairs
\* generated for the new: placeholders of its accounts map: each of them is
\* attached, none is the keypair of a key minted for an argument or for
\* another call, and without a new: account there is no co-signer.
C22_CoSigners ==
  \A k \in 1..Len(calls) :
    calls[k].status # "resolveFailed"
      => /\ SignersAre(calls[k], CallSpecOf(PlanOf(calls[k]), calls[k].kind, calls[k].entry),
                       NewRoles(CallSpecOf(PlanOf(calls[k]), calls[k].kind, calls[k].entry)))
         /\ \A r \in 1..Len(calls[k].signers) :
              /\ \A q \in 1..Len(calls[k].args) :
                   IsMintedKey(calls[k].args[q].val)
                     => calls[k].signers[r] # [t |-> "Keypair", id |-> calls[k].args[q].val.id]
              /\ \A m \in 1..Len(calls) : \A x \in 1..Len(calls[m].signers) :
                   calls[m].signers[x] = calls[k].signers[r] => m = k

\* ---------------------------------------------------------------------
\* Resolution failures
\* ---------------------------------------------------------------------
\* resolving value v in context type raises: an account that matches no rule
\* and is no address, or a derivation with a seed that is too long
Raises(v, type, prog) ==
  \/ RuleOf(v) = 9 /\ type = "accounts" /\ ~NewPublicKey(v.str).ok
  \/ IsPdaPlaceholder(v) /\ SeedTooLong(v.str, wallet, ProgramIdOf(prog))

RaisingAccounts(cs, prog) ==
  {q \in 1..Len(cs.accounts) : Raises(cs.accounts[q].val, "accounts", prog)}
RaisingArgs(cs, prog) == {q \in 1..Len(cs.args) : Raises(cs.args[q], "args", prog)}

First(set) == CHOOSE q \in set : \A r \in set : q <= r

\* what the catch of processPlaceholders reports for the call spec cs: the
\* first entry that raises, accounts before args
ExpectedReport(cs, prog) ==
  IF RaisingAccounts(cs, prog) # {}
  THEN [type |-> "accounts", key |-> cs.accounts[First(RaisingAccounts(cs, prog))].key,
        val |-> cs.accounts[First(RaisingAccounts(cs, prog))].val]
  ELSE [type |-> "args", key |-> NumberToString(First(RaisingArgs(cs, prog)) - 1),
        val |-> cs.args[First(RaisingArgs(cs, prog))]]

\* C23: a call with an account or an argument whose resolution raises is
\* aborted as a whole: it ends resolveFailed with no transaction, the key and
\* the raw value of the first entry that raised are reported, and the error
\* is the one runSeeds throws, with the plan Failed; a call with no such
\* entry is not aborted by resolution.
C23_ResolutionAborts ==
  \A k \in 1..Len(calls) :
    LET c == calls[k]
        cs == CallSpecOf(PlanOf(c), c.kind, c.entry)
        prog == PlanOf(c).program
    IN IF RaisingAccounts(cs, prog) # {} \/ RaisingArgs(cs, prog) # {}
       THEN /\ c.status = "resolveFailed"
            /\ c.tx = 0
            /\ c.report = ExpectedReport(cs, prog)
            /\ c.error.t = "Error"
            /\ k = Len(calls)
            /\ submissions = Cardinality(Submitted)
            /\ pc = "thrown"
            /\ error = c.error
            /\ planState[c.plan] = "Failed"
       ELSE c.status # "resolveFailed"

\* resolution threw at the argument of a call whose account was resolved to
\* a fresh key: nothing was submitted
C23_Witness ==
  \E k \in 1..Len(calls) :
    /\ calls[k].status = "resolveFailed"
    /\ calls[k].report = [type |-> "args", key |-> <<"0">>, val |-> Str(sPdaLong)]
    /\ IsMintedKey(calls[k].accounts[1].val)
    /\ submissions = 0
    /\ pc = "thrown"

\* ---------------------------------------------------------------------
\* Functions the interface does not have
\* ---------------------------------------------------------------------
\* the call c names a function that is not a method of its program
UnknownFunction(c) == c.function \notin IdlMethods(PlanOf(c).program)

\* C24: a call of a function the loaded interface does not have is never
\* submitted: it has no transaction and it is the call runSeeds throws at,
\* with the plan Failed. The failure is found when the call is executed: the
\* accounts and the arguments of the call were resolved before it (keypairs
\* were generated for them), and every call before it in the run was
\* submitted and finished. A call of a function the interface has never
\* fails at the binding.
C24_UnknownFunction ==
  \A k \in 1..Len(calls) :
    LET c == calls[k]
        cs == CallSpecOf(PlanOf(c), c.kind, c.entry)
    IN IF UnknownFunction(c)
       THEN /\ c.status = "bindFailed"
            /\ c.tx = 0
            /\ submissions = Cardinality(Submitted)
            /\ Len(c.accounts) >= Len(cs.accounts)
            /\ Len(c.args) = Len(cs.args)
            /\ \A q \in 1..Len(cs.args) :
                 RuleOf(cs.args[q]) = 7 => IsMintedKey(c.args[q].val)
            /\ k = Len(calls)
            /\ \A m \in 1..(k - 1) : calls[m].status = "done" /\ calls[m].tx # 0
            /\ pc = "thrown"
            /\ error = c.error
            /\ error.t = "Error"
            /\ planState[c.plan] = "Failed"
       ELSE c.status # "bindFailed"

\* the initialize call and three increments were submitted and finished
\* before the decrement call failed at the binding
C24_Witness ==
  /\ Len(calls) = 5
  /\ calls[5].status = "bindFailed"
  /\ calls[5].function = "decrement"
  /\ calls[1].status = "done" /\ calls[1].kind = "initialize"
  /\ calls[4].status = "done" /\ calls[4].tx = 4
  /\ submissions = 4
  /\ generated > 0
  /\ pc = "thrown"

\* ---------------------------------------------------------------------
\* The steps of one call
\* ---------------------------------------------------------------------
\* the ids of the keys minted for the accounts and for the arguments of c
AccountKeyIds(c) == {c.accounts[q].val.id : q \in {r \in 1..Len(c.accounts) : IsMintedKey(c.accounts[r].val)}}
ArgKeyIds(c) == {c.args[q].val.id : q \in {r \in 1..Len(c.args) : IsMintedKey(c.args[r].val)}}

LastCall == calls[Len(calls)]

\* C28: the steps of one call follow one another in the order accounts,
\* args, binding, submission and confirmation, settling delay, log fetch,
\* event parse: every key generated for an account is older than every key
\* generated for an argument, a submitted call has resolved accounts and
\* arguments and a function of the interface, the delay starts when the
\* submission is confirmed, the fetch is requested only after the delay, for
\* a confirmed call and with the signature of its submission, and the events
\* are parsed only from a fetched transaction.
C28_StepOrder ==
  /\ [](\A k \in 1..Len(calls) :
          LET c == calls[k]
          IN /\ \A a \in AccountKeyIds(c) : \A b \in ArgKeyIds(c) : a < b
             /\ c.tx # 0 => /\ Len(c.args) = Len(CallSpecOf(PlanOf(c), c.kind, c.entry).args)
                            /\ c.function \in IdlMethods(PlanOf(c).program)
             /\ c.fetch # 0 => /\ c.fetch = c.tx
                               /\ c.status \in {"fetched", "done", "fetchFailed"}
             /\ c.status \in {"fetched", "done", "fetchFailed"} => c.fetch = c.tx /\ c.tx # 0)
  /\ [][/\ (pc' = "rpc" /\ pc # "rpc")
             => /\ pc = "executeFunction"
                /\ Len(calls') = Len(calls) + 1
                /\ calls'[Len(calls')].status = "submitted"
                /\ calls'[Len(calls')].tx = submissions'
                /\ submissions' = submissions + 1
        /\ (pc' = "delay" /\ pc # "delay")
             => /\ pc = "rpc"
                /\ LastCall.status = "submitted"
                /\ calls'[Len(calls)].status = "confirmed"
        /\ (pc' = "getParsedTransaction" /\ pc # "getParsedTransaction")
             => /\ pc = "delay"
                /\ fetches' = fetches
                /\ calls' = calls
        /\ fetches' # fetches
             => /\ pc = "getParsedTransaction"
                /\ fetches' = fetches + 1
                /\ LastCall.status = "confirmed"
                /\ LastCall.fetch = 0
                /\ calls'[Len(calls)].fetch = LastCall.tx
                /\ Len(calls') = Len(calls)
        /\ (pc' = "parseLogs" /\ pc # "parseLogs")
             => /\ pc = "getParsedTransaction"
                /\ calls'[Len(calls)].status = "fetched"
        /\ (Len(calls') = Len(calls) /\ calls # <<>>
            /\ calls'[Len(calls)].status = "done" /\ LastCall.status # "done")
             => /\ pc = "parseLogs"
                /\ LastCall.status = "fetched"]_vars

\* the second call of a plan is fetched with its own signature, after a
\* first call that generated keys for two accounts and then for an argument
C28_Witness ==
  /\ Len(calls) >= 2
  /\ calls[2].status = "fetched"
  /\ calls[2].fetch = 2
  /\ calls[2].tx = 2
  /\ pc = "parseLogs"
  /\ \E k \in 1..Len(calls) : AccountKeyIds(calls[k]) # {} /\ ArgKeyIds(calls[k]) # {}

\* ---------------------------------------------------------------------
\* Two runSeeds invocations in one process
\* ---------------------------------------------------------------------
\* the number of runSeeds invocations started side by side
MaxRuns == 2

\* the call lists the plans of the concurrent runs hold
ConcurrentPlans == {<<csMint>>, <<csIncrement, csMint>>, <<>>}

\* a runSeeds invocation that was called and awaits loadKeypair: account is
\* the identity its network's accounts[0] holds
StartedRun(account, plan) ==
  [pc |-> "loadKeypair", account |-> account, provider |-> Undefined, plan |-> plan,
   at |-> 0, keys |-> {}, calls |-> <<>>]

\* the seeder's single run is not used when runs are started side by side
NoRun ==
  /\ chain = {}
  /\ wallet = WalletPublicKey
  /\ fetches = 0
  /\ seedConfigs = <<>>
  /\ options = [program |-> Undefined]
  /\ pc = "none"
  /\ planIdx = 1
  /\ planState = <<>>
  /\ kind = "none"
  /\ i = 0
  /\ j = 0
  /\ generated = 0
  /\ calls = <<>>
  /\ lookups = <<>>
  /\ logs = "none"
  /\ submissions = 0
  /\ error = NoError

InitConcurrent ==
  /\ NoRun
  /\ NoDeploy
  /\ SeedsLoaded
  /\ idlInSync = TRUE
  /\ defaultProvider = Undefined
  /\ seedRuns \in [1..MaxRuns -> {StartedRun(a, pl) : a \in Wallets, pl \in ConcurrentPlans}]

\* what run r holds after the synchronous part of its next executeFunction:
\* the placeholders are resolved with the provider of the run, and
\* method.rpc() is awaited; after the last call runSeeds returns
CallStarted(run, ra, pa, n) ==
  IF ~ra.ok \/ ~pa.ok
  THEN [run EXCEPT !.pc = "thrown", !.keys = run.keys \cup (n + 1)..(IF ra.ok THEN pa.next ELSE ra.next)]
  ELSE [run EXCEPT !.pc = "rpc",
                   !.at = run.at + 1,
                   !.keys = run.keys \cup (n + 1)..pa.next,
                   !.calls = Append(run.calls,
                                    [provider |-> run.provider, accounts |-> ra.data,
                                     args |-> pa.data, signers |-> Signers(ra.data)])]

ResolveCallArgs(run, ra, cs, ctx, n) ==
  CallStarted(run, ra, IF ra.ok THEN processPlaceholders(ctx, cs.args, "args", ra.next) ELSE ra, n)

NextCall(run, n) ==
  IF run.at >= Len(run.plan) THEN [run EXCEPT !.pc = "returned"]
  ELSE ResolveCallArgs(run,
                       processPlaceholders([wallet |-> run.provider.wallet,
                                            programId |-> ProgramIdOf(<<"A">>)],
                                           run.plan[run.at + 1].accounts, "accounts", n),
                       run.plan[run.at + 1],
                       [wallet |-> run.provider.wallet, programId |-> ProgramIdOf(<<"A">>)], n)

UnchangedSeeder ==
  UNCHANGED <<chain, wallet, seedConfigs, options, pc, planIdx, planState, kind, i, j, calls,
              lookups, logs, submissions, fetches, error, deployVars, loaderVars,
              idlInSync>>

\* await loadKeypair(...) of run r resolves: the wallet and the provider of
\* the run are made, anchor.setProvider(provider) stores the provider as the
\* default of the process, and loadSeedConfigs awaits the import
ConcurrentSetProvider(r) ==
  /\ seedRuns[r].pc = "loadKeypair"
  /\ seedRuns' = [seedRuns EXCEPT ![r].provider = AnchorProvider(r, seedRuns[r].account),
                                  ![r].pc = "loadSeedConfigs"]
  /\ defaultProvider' = AnchorProvider(r, seedRuns[r].account)
  /\ UNCHANGED generated
  /\ UnchangedSeeder

\* await loadKeypair(...) of run r throws
ConcurrentLoadKeypairThrows(r) ==
  /\ seedRuns[r].pc = "loadKeypair"
  /\ seedRuns' = [seedRuns EXCEPT ![r].pc = "thrown"]
  /\ UNCHANGED <<generated, defaultProvider>>
  /\ UnchangedSeeder

\* the import of loadSeedConfigs resolves for run r: the loop of runSeeds
\* starts and the first call runs up to its await
ConcurrentSeedConfigsLoaded(r) ==
  /\ seedRuns[r].pc = "loadSeedConfigs"
  /\ seedRuns' = [seedRuns EXCEPT ![r] = NextCall(seedRuns[r], generated)]
  /\ generated' = generated + Cardinality(seedRuns'[r].keys) - Cardinality(seedRuns[r].keys)
  /\ UNCHANGED defaultProvider
  /\ UnchangedSeeder

\* await method.rpc(...) of run r returns
ConcurrentRpcConfirmed(r) ==
  /\ seedRuns[r].pc = "rpc"
  /\ seedRuns' = [seedRuns EXCEPT ![r].pc = "delay"]
  /\ UNCHANGED <<generated, defaultProvider>>
  /\ UnchangedSeeder

\* await method.rpc(...) of run r throws
ConcurrentRpcRejected(r) ==
  /\ seedRuns[r].pc = "rpc"
  /\ seedRuns' = [seedRuns EXCEPT ![r].pc = "thrown"]
  /\ UNCHANGED <<generated, defaultProvider>>
  /\ UnchangedSeeder

\* await delay(1000) of run r
ConcurrentDelayElapsed(r) ==
  /\ seedRuns[r].pc = "delay"
  /\ seedRuns' = [seedRuns EXCEPT ![r].pc = "getParsedTransaction"]
  /\ UNCHANGED <<generated, defaultProvider>>
  /\ UnchangedSeeder

\* await getParsedTransaction(...) of run r answers: the logs are parsed,
\* executeFunction returns and the next call runs up to its await
ConcurrentFetched(r) ==
  /\ seedRuns[r].pc = "getParsedTransaction"
  /\ seedRuns' = [seedRuns EXCEPT ![r] = NextCall(seedRuns[r], generated)]
  /\ generated' = generated + Cardinality(seedRuns'[r].keys) - Cardinality(seedRuns[r].keys)
  /\ UNCHANGED defaultProvider
  /\ UnchangedSeeder

NextConcurrent ==
  \E r \in 1..MaxRuns :
    \/ ConcurrentSetProvider(r)
    \/ ConcurrentLoadKeypairThrows(r)
    \/ ConcurrentSeedConfigsLoaded(r)
    \/ ConcurrentRpcConfirmed(r)
    \/ ConcurrentRpcRejected(r)
    \/ ConcurrentDelayElapsed(r)
    \/ ConcurrentFetched(r)

SpecConcurrent == InitConcurrent /\ [][NextConcurrent]_vars

\* every call of run r was made with the provider of run r, whose wallet is
\* the identity of the run; the keypairs that sign it were generated by the
\* run, and no key of the run was generated by another run
OwnState ==
  \A r \in 1..Len(seedRuns) :
    /\ \A k \in 1..Len(seedRuns[r].calls) :
         LET c == seedRuns[r].calls[k]
         IN /\ c.provider = AnchorProvider(r, seedRuns[r].account)
            /\ \A q \in 1..Len(seedRuns[r].plan[k].accounts) :
                 seedRuns[r].plan[k].accounts[q].val \in {Str(sPayer), Str(sSigner)}
                   => Get(c.accounts, seedRuns[r].plan[k].accounts[q].key) = seedRuns[r].account
            /\ \A q \in 1..Len(c.accounts) :
                 IsMintedKey(c.accounts[q].val) => c.accounts[q].val.id \in seedRuns[r].keys
            /\ \A q \in 1..Len(c.args) :
                 IsMintedKey(c.args[q].val) => c.args[q].val.id \in seedRuns[r].keys
            /\ \A q \in 1..Len(c.signers) : c.signers[q].id \in seedRuns[r].keys
    /\ \A o \in 1..Len(seedRuns) : o # r => seedRuns[r].keys \cap seedRuns[o].keys = {}

\* what one run stored is not replaced by another run
NotOverwritten ==
  (defaultProvider.t # "undefined" /\ defaultProvider' # defaultProvider)
    => defaultProvider'.run = defaultProvider.run

\* C25: two runSeeds invocations that run side by side share no state: the
\* calls of a run use the provider, the identity and the keypairs of that
\* run, and nothing a run stored in the process is replaced by the other.
C25_IndependentRuns ==
  /\ []OwnState
  /\ [][NotOverwritten]_vars

\* ---------------------------------------------------------------------
\* deploy (deployer.ts) and findPrograms (utils/program-finder.ts)
\* ---------------------------------------------------------------------
sDotSo == <<".","s","o">>
sKeypairJson == <<"-","k","e","y","p","a","i","r",".","j","s","o","n">>
sB == <<"B">>

\* String.prototype.replace(pattern, by) for a pattern that is a string: the
\* first occurrence is replaced
Replace(s, pat, by) ==
  LET at == {p \in 1..(Len(s) - Len(pat) + 1) : SubSeq(s, p, p + Len(pat) - 1) = pat}
  IN IF at = {} THEN s
     ELSE LET p == CHOOSE q \in at : \A o \in at : q <= o
          IN SubSeq(s, 1, p - 1) \o by \o SubSeq(s, p + Len(pat), Len(s))

\* the deploy directory: whether it exists and what readdirSync lists
DeployDirs ==
  {[exists |-> FALSE, list |-> <<>>],
   [exists |-> TRUE, list |-> <<>>],
   [exists |-> TRUE, list |-> <<sCounter \o sKeypairJson, sCounter \o sDotSo>>],
   [exists |-> TRUE, list |-> <<sB \o sKeypairJson, sB \o sDotSo,
                                sCounter \o sKeypairJson, sCounter \o sDotSo>>],
   [exists |-> TRUE, list |-> <<sB \o sDotSo, sCounter \o sKeypairJson, sCounter \o sDotSo>>]}

\* the ProgramInfo findPrograms pushes for the file of a program
ProgramInfo(file) ==
  [name |-> Replace(file, sDotSo, <<>>), soPath |-> file,
   keypairPath |-> Replace(file, sDotSo, sKeypairJson)]

\* the body of the loop of findPrograms for one file: the program is pushed
\* when the file is a .so, is not filtered out and has its keypair file
RECURSIVE FindLoop(_, _, _)
FindLoop(list, at, specificProgram) ==
  IF at > Len(list) THEN <<>>
  ELSE (IF /\ EndsWith(list[at], sDotSo)
           /\ ~(Truthy(specificProgram)
                /\ Replace(list[at], sDotSo, <<>>) # specificProgram.str)
           /\ \E o \in 1..Len(list) : list[o] = Replace(list[at], sDotSo, sKeypairJson)
        THEN <<ProgramInfo(list[at])>> ELSE <<>>)
       \o FindLoop(list, at + 1, specificProgram)

\* findPrograms(config, options.program)
findPrograms(dir, specificProgram) ==
  IF ~dir.exists THEN [ok |-> FALSE, msg |-> "Deploy directory not found", list |-> <<>>]
  ELSE IF FindLoop(dir.list, 1, specificProgram) = <<>>
  THEN [ok |-> FALSE,
        msg |-> IF Truthy(specificProgram) THEN "Program not found"
                ELSE "No programs found to deploy",
        list |-> <<>>]
  ELSE [ok |-> TRUE, msg |-> "", list |-> FindLoop(dir.list, 1, specificProgram)]

\* [A-Za-z0-9]
AlphaNumeric ==
  {"A","B","C","D","E","F","G","H","I","J","K","L","M","N","O","P","Q","R","S","T","U","V",
   "W","X","Y","Z","a","b","c","d","e","f","g","h","i","j","k","l","m","n","o","p","q","r",
   "s","t","u","v","w","x","y","z","0","1","2","3","4","5","6","7","8","9"}

sSignatureLabel == <<"S","i","g","n","a","t","u","r","e",":"," ">>

\* output.match(/Signature: ([A-Za-z0-9]+)/): the first place where the
\* label is followed by a letter or digit, and the longest run of them there
MatchSignature(output) ==
  LET at == {p \in 1..(Len(output) - Len(sSignatureLabel)) :
               /\ SubSeq(output, p, p + Len(sSignatureLabel) - 1) = sSignatureLabel
               /\ output[p + Len(sSignatureLabel)] \in AlphaNumeric}
  IN IF at = {} THEN Undefined
     ELSE LET p == (CHOOSE q \in at : \A o \in at : q <= o) + Len(sSignatureLabel)
              e == CHOOSE q \in p..Len(output) :
                     /\ \A o \in p..q : output[o] \in AlphaNumeric
                     /\ q = Len(output) \/ output[q + 1] \notin AlphaNumeric
          IN Str(SubSeq(output, p, e))

\* what the deploy tool prints when it exits with code 0
ToolOutputs ==
  {<<"I","d",":"," ","7","\n","S","i","g","n","a","t","u","r","e",":"," ","5","K","q","\n">>,
   <<"I","d",":"," ","7","\n">>,
   <<"S","i","g","n","a","t","u","r","e",":"," ","\n">>,
   <<>>}

\* programKeypair.publicKey.toBase58(): the text that holds the key
ToBase58(pk) == [t |-> "string", b58 |-> pk]

\* error.message
MessageOf(e) == [t |-> "string", msg |-> e.msg]

\* what one deployProgram call meets: the program keypair does not load, the
\* deploy tool fails, or the tool exits with code 0 and an output
DeployOutcomes ==
  {[keypair |-> FALSE, tool |-> FALSE, output |-> <<>>],
   [keypair |-> TRUE, tool |-> FALSE, output |-> <<>>]}
    \cup {[keypair |-> TRUE, tool |-> TRUE, output |-> o] : o \in ToolOutputs}

\* deployProgram when an output without a signature counts as a failure
deployProgramSignatureRequired(program, outcome) ==
  IF outcome.tool /\ MatchSignature(outcome.output) # Undefined
  THEN [success |-> TRUE, programName |-> program.name,
        programId |-> ToBase58(ProgramKeypairPublicKey(program.name)),
        txSignature |-> MatchSignature(outcome.output), error |-> Undefined]
  ELSE [success |-> FALSE, programName |-> program.name,
        programId |-> ToBase58(ProgramKeypairPublicKey(program.name)),
        txSignature |-> Undefined, error |-> MessageOf(Error("Command failed"))]

\* deployProgram(program, networkConfig, options) when the keypair loaded:
\* the result it returns
deployProgram(program, outcome) ==
  IF outcome.tool
  THEN [success |-> TRUE, programName |-> program.name,
        programId |-> ToBase58(ProgramKeypairPublicKey(program.name)),
        txSignature |-> MatchSignature(outcome.output), error |-> Undefined]
  ELSE [success |-> FALSE, programName |-> program.name,
        programId |-> ToBase58(ProgramKeypairPublicKey(program.name)),
        txSignature |-> Undefined, error |-> MessageOf(Error("Command failed"))]

\* the errorResult of the catch in the loop of deploy
errorResult(program, e) ==
  [success |-> FALSE, programName |-> program.name, programId |-> Str(<<>>),
   txSignature |-> Undefined, error |-> MessageOf(e)]

\* one entry of the list of the tools and services deploy called: which one,
\* for which program, how it answered and what it printed
Invoke(tool, name, answer, output) ==
  Append(invoked, [tool |-> tool, name |-> name, answer |-> answer, output |-> output])

DeployOptionsSet ==
  {[program |-> f, skipBuild |-> sb, verify |-> v, seed |-> sd] :
     f \in {Undefined, Str(sCounter), Str(sB)}, sb \in BOOLEAN, v \in BOOLEAN, sd \in BOOLEAN}

\* the plans the seeding stage of deploy runs: the README example with one
\* increment, and with a decrement after it
DeployPlans ==
  {[program |-> sCounter, initialize |-> ini,
    seeds |-> Array(<<SeedEntry(csIncrement, Undefined)>> \o more)] :
     ini \in {Undefined, csInitialize},
     more \in {<<>>, <<SeedEntry(csDecrement, Undefined)>>}}

\* deploy(config, networkName, options) is called: the connection is made
\* and the deployer keypair loaded; runSeeds is not running
InitDeploy ==
  /\ stage = "getBalance"
  /\ deployOptions \in DeployOptionsSet
  /\ balance = 0
  /\ files \in DeployDirs
  /\ programs = <<>>
  /\ results = <<>>
  /\ cursor = 0
  /\ invoked = <<>>
  /\ deployError = NoError
  /\ chain = {}
  /\ wallet = WalletPublicKey
  /\ fetches = 0
  /\ seedConfigs \in {<<pl>> : pl \in DeployPlans}
  /\ deployOptions.seed \/ seedConfigs[1].seeds = Array(<<SeedEntry(csIncrement, Undefined)>>)
  /\ deployOptions.seed \/ seedConfigs[1].initialize = csInitialize
  /\ options = [program |-> deployOptions.program]
  /\ pc = "idle"
  /\ planIdx = 1
  /\ planState = [p \in 1..Len(seedConfigs) |-> "Idle"]
  /\ kind = "none"
  /\ i = 0
  /\ j = 0
  /\ generated = 0
  /\ calls = <<>>
  /\ lookups = <<>>
  /\ logs = "none"
  /\ submissions = 0
  /\ error = NoError
  /\ defaultProvider = Undefined
  /\ seedRuns = <<>>
  /\ SeedsLoaded
  /\ idlInSync = TRUE

seederVars ==
  <<chain, wallet, seedConfigs, options, pc, planIdx, planState, kind, i, j, generated, calls,
    lookups, logs, submissions, fetches, error>>

deployThrows(e) ==
  /\ stage' = "thrown"
  /\ deployError' = e

\* const balance = await connection.getBalance(deployer.publicKey) and the
\* test of the balance
DeployGetBalance ==
  /\ stage = "getBalance"
  /\ \E b \in {0, 1, 2000000000} : balance' = b
  /\ invoked' = Invoke("getBalance", <<>>, "ok", <<>>)
  /\ IF balance' = 0
     THEN deployThrows(Error("Deployer account has no SOL balance"))
     ELSE /\ stage' = IF deployOptions.skipBuild THEN "findPrograms" ELSE "build"
          /\ UNCHANGED deployError
  /\ UNCHANGED <<deployOptions, files, programs, results, cursor, seederVars, concurrentVars, loaderVars, idlInSync>>

\* DeployBuild with a catch that logs the failure and goes on
DeployBuildFailureIgnored ==
  /\ stage = "build"
  /\ \E built \in BOOLEAN :
       invoked' = Invoke("anchor build", <<>>, IF built THEN "ok" ELSE "failed", <<>>)
  /\ stage' = "findPrograms"
  /\ UNCHANGED <<deployOptions, balance, files, programs, results, cursor, deployError,
                 seederVars, concurrentVars, loaderVars, idlInSync>>

\* execSync('anchor build', ...) inside try, catch: throw new Error('Build failed')
DeployBuild ==
  /\ stage = "build"
  /\ \E built \in BOOLEAN :
       IF built
       THEN /\ invoked' = Invoke("anchor build", <<>>, "ok", <<>>)
            /\ stage' = "findPrograms"
            /\ UNCHANGED deployError
       ELSE /\ invoked' = Invoke("anchor build", <<>>, "failed", <<>>)
            /\ deployThrows(Error("Build failed"))
  /\ UNCHANGED <<deployOptions, balance, files, programs, results, cursor, seederVars,
                 concurrentVars, loaderVars, idlInSync>>

\* const programs = await findPrograms(config, options.program)
DeployFindPrograms ==
  /\ stage = "findPrograms"
  /\ invoked' = Invoke("findPrograms", <<>>,
                       IF findPrograms(files, deployOptions.program).ok THEN "ok" ELSE "failed",
                       <<>>)
  /\ programs' = findPrograms(files, deployOptions.program).list
  /\ IF findPrograms(files, deployOptions.program).ok
     THEN stage' = "deployProgram" /\ cursor' = 1 /\ UNCHANGED deployError
     ELSE deployThrows(Error(findPrograms(files, deployOptions.program).msg))
          /\ UNCHANGED cursor
  /\ UNCHANGED <<deployOptions, balance, files, results, seederVars, concurrentVars, loaderVars, idlInSync>>

\* DeployProgram when a failed result ends the loop: deploy throws
DeployProgramStopsAtFailure ==
  /\ stage = "deployProgram"
  /\ cursor <= Len(programs)
  /\ \E outcome \in DeployOutcomes :
       /\ IF outcome.keypair
          THEN /\ results' = Append(results, deployProgram(programs[cursor], outcome))
               /\ invoked' = Invoke("solana program deploy", programs[cursor].name,
                                    IF outcome.tool THEN "ok" ELSE "failed", outcome.output)
          ELSE /\ results' = Append(results, errorResult(programs[cursor],
                                                         Error("Failed to load keypair")))
               /\ invoked' = Invoke("loadKeypair", programs[cursor].name, "failed", <<>>)
       /\ IF outcome.tool
          THEN UNCHANGED <<stage, deployError>>
          ELSE deployThrows(Error("Deployment failed"))
  /\ cursor' = cursor + 1
  /\ UNCHANGED <<deployOptions, balance, files, programs, seederVars, concurrentVars, loaderVars, idlInSync>>

\* one pass of the loop over the programs: deployProgram is awaited inside
\* try, its result is pushed; what it throws is pushed as an errorResult
DeployProgram ==
  /\ stage = "deployProgram"
  /\ cursor <= Len(programs)
  /\ \E outcome \in DeployOutcomes :
       IF outcome.keypair
       THEN /\ results' = Append(results, deployProgram(programs[cursor], outcome))
            /\ invoked' = Invoke("solana program deploy", programs[cursor].name,
                                 IF outcome.tool THEN "ok" ELSE "failed", outcome.output)
       ELSE /\ results' = Append(results, errorResult(programs[cursor],
                                                      Error("Failed to load keypair")))
            /\ invoked' = Invoke("loadKeypair", programs[cursor].name, "failed", <<>>)
  /\ cursor' = cursor + 1
  /\ UNCHANGED <<stage, deployOptions, balance, files, programs, deployError, seederVars,
                 concurrentVars, loaderVars, idlInSync>>

\* what follows the verification: the seeding when it is asked for, or the
\* return of the results
AfterVerify == IF deployOptions.seed THEN "runSeeds" ELSE "returned"

\* the loop over the programs is through
DeployProgramsDone ==
  /\ stage = "deployProgram"
  /\ cursor > Len(programs)
  /\ stage' = IF deployOptions.verify THEN "verify" ELSE AfterVerify
  /\ cursor' = 1
  /\ UNCHANGED <<deployOptions, balance, files, programs, results, invoked, deployError,
                 seederVars, concurrentVars, loaderVars, idlInSync>>

\* DeployVerify when a failed verification is logged and deploy goes on
DeployVerifyFailureLogged ==
  /\ stage = "verify"
  /\ cursor <= Len(results)
  /\ IF results[cursor].success
     THEN \E accountInfo \in {"executable", "notExecutable", "null"} :
            invoked' = Invoke("getAccountInfo", results[cursor].programName, accountInfo, <<>>)
     ELSE UNCHANGED invoked
  /\ cursor' = cursor + 1
  /\ UNCHANGED <<stage, deployError, deployOptions, balance, files, programs, results,
                 seederVars, concurrentVars, loaderVars, idlInSync>>

\* one pass of the loop over the results: verifyProgram for a result with
\* success, which throws when the account is not found or not executable
DeployVerify ==
  /\ stage = "verify"
  /\ cursor <= Len(results)
  /\ IF results[cursor].success
     THEN \E accountInfo \in {"executable", "notExecutable", "null"} :
            /\ invoked' = Invoke("getAccountInfo", results[cursor].programName,
                                 accountInfo, <<>>)
            /\ IF accountInfo = "executable"
               THEN cursor' = cursor + 1 /\ UNCHANGED <<stage, deployError>>
               ELSE /\ deployThrows(Error(IF accountInfo = "null"
                                          THEN "Program not found on chain"
                                          ELSE "Program is not executable"))
                    /\ UNCHANGED cursor
     ELSE /\ cursor' = cursor + 1
          /\ UNCHANGED <<stage, deployError, invoked>>
  /\ UNCHANGED <<deployOptions, balance, files, programs, results, seederVars, concurrentVars, loaderVars, idlInSync>>

\* the loop over the results is through
DeployVerifyDone ==
  /\ stage = "verify"
  /\ cursor > Len(results)
  /\ stage' = AfterVerify
  /\ UNCHANGED <<deployOptions, balance, files, programs, results, cursor, invoked,
                 deployError, seederVars, concurrentVars, loaderVars, idlInSync>>

\* await runSeeds(config, networkName, { program: options.program, ... })
\* is called
DeployRunSeeds ==
  /\ stage = "runSeeds"
  /\ pc = "idle"
  /\ pc' = "runSeeds"
  /\ stage' = "seeding"
  /\ invoked' = Invoke("runSeeds", <<>>, "ok", <<>>)
  /\ defaultProvider' = AnchorProvider(1, wallet)
  /\ UNCHANGED <<deployOptions, balance, files, programs, results, cursor, deployError,
                 chain, wallet, seedConfigs, options, planIdx, planState, kind, i, j,
                 generated, calls, lookups, logs, submissions, fetches, error, seedRuns, loaderVars, idlInSync>>

\* runSeeds returned: return results
DeploySeedsReturned ==
  /\ stage = "seeding"
  /\ pc = "returned"
  /\ stage' = "returned"
  /\ UNCHANGED <<deployOptions, balance, files, programs, results, cursor, invoked,
                 deployError, seederVars, concurrentVars, loaderVars, idlInSync>>

\* runSeeds threw: deploy has no catch around it
DeploySeedsThrown ==
  /\ stage = "seeding"
  /\ pc = "thrown"
  /\ deployThrows(error)
  /\ UNCHANGED <<deployOptions, balance, files, programs, results, cursor, invoked,
                 seederVars, concurrentVars, loaderVars, idlInSync>>

NextDeploy ==
  \/ DeployGetBalance
  \/ DeployBuild
  \/ DeployFindPrograms
  \/ DeployProgram
  \/ DeployProgramsDone
  \/ DeployVerify
  \/ DeployVerifyDone
  \/ DeployRunSeeds
  \/ DeploySeedsReturned
  \/ DeploySeedsThrown
  \/ Next

SpecDeploy == InitDeploy /\ [][NextDeploy]_vars

\* ---------------------------------------------------------------------
\* Deployment results
\* ---------------------------------------------------------------------
\* the entries of the list of invocations made by the loop over the programs
DeployAttempts ==
  SelectSeq(invoked, LAMBDA v : v.tool \in {"solana program deploy", "loadKeypair"})

\* the text holds the label Signature: followed by a letter or a digit
HasSignaturePattern(output) ==
  \E p \in 1..(Len(output) - Len(sSignatureLabel)) :
    /\ \A q \in 1..Len(sSignatureLabel) : output[p + q - 1] = sSignatureLabel[q]
    /\ output[p + Len(sSignatureLabel)] \in AlphaNumeric

\* C26: a run of the deploy tool that exits with success and prints no
\* signature pattern gives a result with success and an undefined
\* txSignature; a run that fails gives a result deployProgram returned (it
\* holds the program id) with success = false and the error message, and
\* deploy goes on: deployProgram has not thrown.
C26_DeployProgramResult ==
  /\ Len(DeployAttempts) = Len(results)
  /\ \A k \in 1..Len(results) :
       LET a == DeployAttempts[k]
           r == results[k]
       IN a.tool = "solana program deploy"
            => /\ r.programName = a.name
               /\ r.programId = ToBase58(ProgramKeypairPublicKey(a.name))
               /\ (a.answer = "ok" /\ ~HasSignaturePattern(a.output))
                    => /\ r.success
                       /\ r.txSignature = Undefined
                       /\ r.error = Undefined
               /\ (a.answer = "ok" /\ HasSignaturePattern(a.output))
                    => /\ r.success
                       /\ r.txSignature.t = "string"
               /\ a.answer = "failed"
                    => /\ ~r.success
                       /\ r.error = [t |-> "string", msg |-> "Command failed"]
                       /\ r.txSignature = Undefined
                       /\ deployError.t = "Error" => deployError.msg # "Command failed"

\* the deploy tool failed for the first program and exited with success for
\* the second with the label alone in its output, and deploy returned
C26_Witness ==
  /\ stage = "returned"
  /\ Len(results) = 2
  /\ ~results[1].success
  /\ DeployAttempts[1].tool = "solana program deploy"
  /\ DeployAttempts[1].answer = "failed"
  /\ results[2].success
  /\ results[2].txSignature = Undefined
  /\ DeployAttempts[2].output = <<"S","i","g","n","a","t","u","r","e",":"," ","\n">>

\* ---------------------------------------------------------------------
\* The build
\* ---------------------------------------------------------------------
\* the invocations of one tool
InvocationsOf(tool) == SelectSeq(invoked, LAMBDA v : v.tool = tool)

\* C27: when the build tool fails, deploy has thrown 'Build failed', the
\* build was invoked once, and nothing was discovered, deployed, verified or
\* seeded; the build is invoked at most once in any deploy, only when
\* skipBuild is not set, and never again once it has failed.
C27_BuildFailure ==
  /\ [](/\ Len(InvocationsOf("anchor build")) <= 1
        /\ deployOptions.skipBuild => InvocationsOf("anchor build") = <<>>
        /\ (\E k \in 1..Len(invoked) :
              invoked[k].tool = "anchor build" /\ invoked[k].answer = "failed")
             => /\ ~deployOptions.skipBuild
                /\ stage = "thrown"
                /\ deployError = [t |-> "Error", msg |-> "Build failed"]
                /\ invoked[Len(invoked)].tool = "anchor build"
                /\ Len(invoked) = 2
                /\ programs = <<>>
                /\ results = <<>>
                /\ pc = "idle"
                /\ calls = <<>>
                /\ submissions = 0)
  /\ [][stage = "thrown" => UNCHANGED vars]_vars

\* the build failed in a deploy that was asked to verify and to seed
C27_Witness ==
  /\ stage = "thrown"
  /\ deployError = [t |-> "Error", msg |-> "Build failed"]
  /\ deployOptions.verify /\ deployOptions.seed
  /\ files.exists /\ Len(files.list) = 4
  /\ invoked[2].answer = "failed"

\* ---------------------------------------------------------------------
\* The loop over the programs
\* ---------------------------------------------------------------------
\* the loop of deploy over the programs is through
ProgramsAttempted ==
  \/ stage \in {"verify", "runSeeds", "seeding", "returned"}
  \/ stage = "thrown" /\ programs # <<>> /\ deployError.msg # "Build failed"

\* position of the file of program k in the deploy directory
FilePosition(k) == CHOOSE p \in 1..Len(files.list) : files.list[p] = programs[k].soPath

\* C29: the programs are attempted in the order of their discovery, which
\* is that of the directory listing, and each attempt adds one result for
\* its program: the results are those of the first programs, in order; a
\* failed attempt (a failed tool or a throw of deployProgram) is a result
\* with success = false and an error message, the loop goes on after it, and
\* when the loop is through there is one result for every program.
C29_EveryProgramAttempted ==
  /\ [](/\ Len(results) <= Len(programs)
        /\ Len(DeployAttempts) = Len(results)
        /\ \A k \in 1..Len(programs) : \A o \in 1..Len(programs) :
             k < o => FilePosition(k) < FilePosition(o)
        /\ \A k \in 1..Len(results) :
             /\ results[k].programName = programs[k].name
             /\ DeployAttempts[k].name = programs[k].name
             /\ DeployAttempts[k].answer = "failed"
                  => /\ ~results[k].success
                     /\ results[k].error.t = "string"
                     /\ results[k].error.msg \in {"Command failed", "Failed to load keypair"}
             /\ DeployAttempts[k].answer = "ok" => results[k].success
        /\ stage = "deployProgram" => Len(results) = cursor - 1
        /\ ProgramsAttempted => Len(results) = Len(programs))
  /\ [][(stage = "deployProgram" /\ cursor <= Len(programs))
          => /\ stage' = "deployProgram"
             /\ cursor' = cursor + 1
             /\ Len(results') = Len(results) + 1
             /\ SubSeq(results', 1, Len(results)) = results
             /\ deployError' = deployError]_vars

\* the first program failed at the tool, the second threw at its keypair, and
\* both have their result when deploy returns
C29_Witness ==
  /\ stage = "returned"
  /\ Len(programs) = 2
  /\ Len(results) = 2
  /\ ~results[1].success /\ results[1].programName = sB
  /\ DeployAttempts[1].tool = "solana program deploy"
  /\ ~results[2].success /\ results[2].programName = sCounter
  /\ results[2].programId = Str(<<>>)

\* ---------------------------------------------------------------------
\* The stages of deploy
\* ---------------------------------------------------------------------
\* the stage of deploy a tool or service is called in
StageOf(tool) ==
  CASE tool = "getBalance" -> 1
    [] tool = "anchor build" -> 2
    [] tool = "findPrograms" -> 3
    [] tool \in {"solana program deploy", "loadKeypair"} -> 4
    [] tool = "getAccountInfo" -> 5
    [] tool = "runSeeds" -> 6

\* the names of the programs whose result has success
Succeeded == {results[k].programName : k \in {o \in 1..Len(results) : results[o].success}}

VerifyErrors ==
  {[t |-> "Error", msg |-> "Program not found on chain"],
   [t |-> "Error", msg |-> "Program is not executable"]}

\* C30: what deploy calls, it calls in the order balance, build, discovery,
\* deployments, verifications, seeding, and the balance comes first; with a
\* balance of zero deploy throws and nothing else was called; the build,
\* the verification and the seeding are made only when asked for; only
\* programs whose result has success are verified, after every program was
\* attempted; a failed verification makes deploy throw with runSeeds not
\* called; runSeeds is called at most once, after every program was
\* attempted and every result with success verified, and no seeding call is
\* made before it.
C30_StageOrder ==
  /\ [](/\ \A a \in 1..Len(invoked) : \A b \in a..Len(invoked) :
             StageOf(invoked[a].tool) <= StageOf(invoked[b].tool)
        /\ invoked # <<>> => invoked[1].tool = "getBalance"
        /\ Len(InvocationsOf("getBalance")) <= 1
        /\ (invoked # <<>> /\ balance = 0)
             => /\ Len(invoked) = 1
                /\ stage = "thrown"
                /\ deployError = [t |-> "Error", msg |-> "Deployer account has no SOL balance"]
                /\ results = <<>>
        /\ ~deployOptions.verify => InvocationsOf("getAccountInfo") = <<>>
        /\ ~deployOptions.seed => InvocationsOf("runSeeds") = <<>>
        /\ (~deployOptions.skipBuild /\ InvocationsOf("findPrograms") # <<>>)
             => InvocationsOf("anchor build") # <<>>
        /\ \A k \in 1..Len(invoked) :
             invoked[k].tool = "getAccountInfo"
               => /\ invoked[k].name \in Succeeded
                  /\ Len(results) = Len(programs)
                  /\ invoked[k].answer # "executable"
                       => /\ k = Len(invoked)
                          /\ stage = "thrown"
                          /\ deployError \in VerifyErrors
                          /\ pc = "idle"
        /\ Len(InvocationsOf("runSeeds")) <= 1
        /\ InvocationsOf("runSeeds") # <<>>
             => /\ Len(results) = Len(programs)
                /\ programs # <<>>
                /\ deployOptions.verify
                     => Len(InvocationsOf("getAccountInfo")) = Cardinality(Succeeded)
                /\ \A k \in 1..Len(invoked) : invoked[k].answer \in {"ok", "executable"}
                                             \/ StageOf(invoked[k].tool) = 4
        /\ InvocationsOf("runSeeds") = <<>> => pc = "idle" /\ calls = <<>> /\ lookups = <<>>
        /\ stage = "returned"
             => /\ Len(results) = Len(programs)
                /\ deployOptions.seed <=> InvocationsOf("runSeeds") # <<>>
                /\ deployOptions.seed => pc = "returned"
                /\ deployOptions.verify
                     => Len(InvocationsOf("getAccountInfo")) = Cardinality(Succeeded))
  /\ [][Len(invoked') \in {Len(invoked), Len(invoked) + 1}
        /\ SubSeq(invoked', 1, Len(invoked)) = invoked]_vars

\* of two programs the first failed and the second was deployed and
\* verified, and the seeding run has submitted a call
C30_Witness ==
  /\ stage = "seeding"
  /\ Len(results) = 2
  /\ ~results[1].success
  /\ results[2].success
  /\ Len(InvocationsOf("getAccountInfo")) = 1
  /\ InvocationsOf("anchor build") # <<>>
  /\ submissions = 1

\* ---------------------------------------------------------------------
\* loadSeedConfigs
\* ---------------------------------------------------------------------
sCustomScript == <<"m","y",".","t","s">>

\* the first of the conventional locations that exists, from position at on;
\* the empty path when there is none
RECURSIVE FirstSeedPath(_, _)
FirstSeedPath(existing, at) ==
  IF at > Len(seedPaths) THEN <<>>
  ELSE IF seedPaths[at] \in existing THEN seedPaths[at]
  ELSE FirstSeedPath(existing, at + 1)

\* const seeds = seedModule.default || seedModule.seeds;
\* return Array.isArray(seeds) ? seeds : [seeds]
SeedsOfModule(exports) ==
  IF (IF Truthy(exports.default) THEN exports.default ELSE exports.seeds).t = "array"
  THEN (IF Truthy(exports.default) THEN exports.default ELSE exports.seeds).items
  ELSE <<IF Truthy(exports.default) THEN exports.default ELSE exports.seeds>>

\* loadSeedConfigs with the conventional locations as a fallback for an
\* explicit path that does not exist
loadSeedConfigsFallback(script, existing, exports) ==
  IF Truthy(script) /\ script.str \in existing
  THEN [ok |-> TRUE, path |-> script.str, list |-> SeedsOfModule(exports), msg |-> ""]
  ELSE IF FirstSeedPath(existing, 1) # <<>>
  THEN [ok |-> TRUE, path |-> FirstSeedPath(existing, 1), list |-> SeedsOfModule(exports),
        msg |-> ""]
  ELSE [ok |-> FALSE, path |-> <<>>, list |-> <<>>, msg |-> "No seed configuration found"]

\* loadSeedConfigs(config, options): the path imported and the list returned,
\* or the error thrown
loadSeedConfigs(script, existing, exports) ==
  IF Truthy(script)
  THEN IF script.str \notin existing
       THEN [ok |-> FALSE, path |-> <<>>, list |-> <<>>, msg |-> "Seed script not found"]
       ELSE [ok |-> TRUE, path |-> script.str, list |-> SeedsOfModule(exports), msg |-> ""]
  ELSE IF FirstSeedPath(existing, 1) # <<>>
  THEN [ok |-> TRUE, path |-> FirstSeedPath(existing, 1), list |-> SeedsOfModule(exports),
        msg |-> ""]
  ELSE [ok |-> FALSE, path |-> <<>>, list |-> <<>>, msg |-> "No seed configuration found"]

\* the plans the seed modules export: export default plan, export default
\* [plans], export const seeds = ...
PlanWithInitialize ==
  [program |-> sCounter, initialize |-> csInitialize,
   seeds |-> Array(<<SeedEntry(csIncrement, Undefined)>>)]
PlanWithDecrement ==
  [program |-> sCounter, initialize |-> Undefined,
   seeds |-> Array(<<SeedEntry(csIncrement, Undefined), SeedEntry(csDecrement, Undefined)>>)]

\* the README plan with the repeat count r on its seed entry: repeat?: number
\* admits zero and negative counts
PlanWithRepeat(r) ==
  [program |-> sCounter, initialize |-> csInitialize,
   seeds |-> Array(<<SeedEntry(csIncrement, r)>>)]

\* a plan as a value of the seed module
PlanObject(plan) == [t |-> "object", plan |-> plan]

ModuleExports ==
  {[default |-> d, seeds |-> s] :
     d \in {Undefined, PlanObject(PlanWithInitialize), Array(<<>>),
            Array(<<PlanObject(PlanWithDecrement), PlanObject(PlanWithInitialize)>>)},
     s \in {Undefined, PlanObject(PlanWithDecrement),
            Array(<<PlanObject(PlanWithInitialize)>>),
            PlanObject(PlanWithRepeat(Num(0))), PlanObject(PlanWithRepeat(Num(-1)))}}

\* runSeeds has made its provider and calls loadSeedConfigs
InitLoad ==
  /\ chain = {}
  /\ wallet = WalletPublicKey
  /\ fetches = 0
  /\ seedConfigs = <<>>
  /\ options \in {[program |-> f] : f \in ProgramFilters}
  /\ pc = "loadSeedConfigs"
  /\ planIdx = 1
  /\ planState = <<>>
  /\ kind = "none"
  /\ i = 0
  /\ j = 0
  /\ generated = 0
  /\ calls = <<>>
  /\ lookups = <<>>
  /\ logs = "none"
  /\ submissions = 0
  /\ error = NoError
  /\ NoDeploy
  /\ OneRun
  /\ seedScript \in {Undefined, Str(<<>>), Str(sCustomScript)}
  /\ seedFiles \in SUBSET {sSeedsIndexTs, sSeedsIndexJs, sScriptsSeedTs, sScriptsSeedJs,
                           sCustomScript}
  /\ seedExports \in ModuleExports
  /\ imported = <<>>
  /\ idlInSync = TRUE

\* const seedConfigs = await loadSeedConfigs(config, options) returns the
\* list or throws; a list that holds undefined (a module with neither
\* export) makes the loop of runSeeds throw a TypeError at its first plan
LoadSeedConfigs ==
  /\ pc = "loadSeedConfigs"
  /\ LET r == loadSeedConfigs(seedScript, seedFiles, seedExports)
     IN /\ imported' = r.path
        /\ IF ~r.ok
           THEN /\ pc' = "thrown"
                /\ error' = Error(r.msg)
                /\ UNCHANGED <<seedConfigs, planState>>
           ELSE IF \E k \in 1..Len(r.list) : r.list[k].t = "undefined"
           THEN /\ pc' = "thrown"
                /\ error' = Error("Cannot read properties of undefined")
                /\ UNCHANGED <<seedConfigs, planState>>
           ELSE /\ pc' = "runSeeds"
                /\ seedConfigs' = [k \in 1..Len(r.list) |-> r.list[k].plan]
                /\ planState' = [k \in 1..Len(r.list) |-> "Idle"]
                /\ UNCHANGED error
  /\ UNCHANGED <<chain, wallet, options, planIdx, kind, i, j, generated, calls, lookups, logs,
                 submissions, fetches, deployVars, concurrentVars, seedScript, seedFiles,
                 seedExports, idlInSync>>

NextLoad ==
  \/ LoadSeedConfigs
  \/ Next

SpecLoad == InitLoad /\ [][NextLoad]_vars

\* the module export loadSeedConfigs reads: default, or seeds when default
\* is absent
ChosenExport == IF seedExports.default.t # "undefined" THEN seedExports.default
                ELSE seedExports.seeds

\* the conventional locations that exist, by position in the probing order
ExistingSeedPaths == {k \in 1..Len(seedPaths) : seedPaths[k] \in seedFiles}

\* C31: once loading is over, an explicit script path is the only path
\* imported, and when it is missing nothing is imported and the run throws
\* "Seed script not found"; without an explicit path the first existing one of
\* seeds/index.ts, seeds/index.js, scripts/seed.ts, scripts/seed.js is imported,
\* and the run throws "No seed configuration found" when none exists; a single
\* exported plan becomes a one-element list, an exported list is taken as it
\* is, and the default export is read whenever the module has one.
C31_LoadSeedConfigs ==
  pc # "loadSeedConfigs" =>
    /\ (seedScript.t = "string" /\ seedScript.str # <<>>) =>
         IF seedScript.str \in seedFiles
         THEN imported = seedScript.str
         ELSE /\ imported = <<>>
              /\ pc = "thrown"
              /\ error = Error("Seed script not found")
              /\ seedConfigs = <<>>
              /\ calls = <<>>
    /\ (seedScript.t = "undefined" \/ (seedScript.t = "string" /\ seedScript.str = <<>>)) =>
         IF ExistingSeedPaths = {}
         THEN /\ imported = <<>>
              /\ pc = "thrown"
              /\ error = Error("No seed configuration found")
              /\ seedConfigs = <<>>
              /\ calls = <<>>
         ELSE \E k \in ExistingSeedPaths :
                /\ \A m \in ExistingSeedPaths : k <= m
                /\ imported = seedPaths[k]
    /\ (imported # <<>> /\ ChosenExport.t = "object") =>
         seedConfigs = <<ChosenExport.plan>>
    /\ (imported # <<>> /\ ChosenExport.t = "array") =>
         /\ Len(seedConfigs) = Len(ChosenExport.items)
         /\ \A k \in 1..Len(seedConfigs) : seedConfigs[k] = ChosenExport.items[k].plan

\* seeds/index.ts is absent, seeds/index.js and scripts/seed.ts exist, the
\* module exports a single default plan and a seeds list, and the run of the
\* one default plan has returned
C31_Witness ==
  /\ pc = "returned"
  /\ seedScript.t = "undefined"
  /\ seedFiles = {sSeedsIndexJs, sScriptsSeedTs, sCustomScript}
  /\ imported = sSeedsIndexJs
  /\ seedExports.default = PlanObject(PlanWithInitialize)
  /\ seedExports.seeds = PlanObject(PlanWithDecrement)
  /\ seedConfigs = <<PlanWithInitialize>>
  /\ Len(calls) = 2

\* the transaction of call c was confirmed: method.rpc() returned its
\* signature
Landed(c) == c.status \in {"confirmed", "fetched", "done", "fetchFailed"}

\* initialize, then each seed entry repeated
FlatCalls(plan) ==
  (IF HasInitialize(plan) THEN <<<<"initialize", 0, 0>>>> ELSE <<>>)
  \o SeedSchedule(SeedsOf(plan), 0)

\* the calls of plan p whose transaction was confirmed, in order
LandedCalls(p) ==
  LET own == SelectSeq(calls, LAMBDA c : c.plan = p /\ Landed(c))
  IN [k \in 1..Len(own) |-> <<own[k].kind, own[k].entry, own[k].iteration>>]

IsPrefix(a, b) == Len(a) <= Len(b) /\ \A k \in 1..Len(a) : a[k] = b[k]

\* the count the counter account holds after the confirmed calls of the run
CountOnChain ==
  (IF \E k \in 1..Len(calls) : calls[k].kind = "initialize" /\ Landed(calls[k])
   THEN 0 ELSE 2)
  + Cardinality({k \in 1..Len(calls) : calls[k].kind = "seed" /\ Landed(calls[k])})

\* C32: the calls of a plan made so far, and those of them whose transaction
\* was confirmed, are prefixes of initialize followed by each seed entry
\* repeated, whatever an earlier run left on the chain; when the k-th call of
\* a plan fails, exactly the k-1 calls before it are confirmed, and the
\* counter account holds what they wrote.
C32_PrefixInvariant ==
  \A p \in Plans :
    /\ IsPrefix(PlanCalls(p), FlatCalls(seedConfigs[p]))
    /\ IsPrefix(LandedCalls(p), FlatCalls(seedConfigs[p]))
    /\ (planState[p] = "Failed" /\ PlanCalls(p) # <<>>)
         => Len(LandedCalls(p)) = Len(PlanCalls(p)) - 1
    /\ \A a \in chain : a.count = CountOnChain

\* C36: a call whose transaction was confirmed is never a failed call,
\* whatever the log fetch after it does: a plan all of whose calls were
\* confirmed is not Failed, and when the run is over it has made every call
\* of its sequence.
C36_ReadErrorNonFatal ==
  /\ \A k \in 1..Len(calls) : Landed(calls[k]) => ~CallFailed(calls[k])
  /\ \A p \in Plans :
       (PlanCalls(p) # <<>> /\ Len(LandedCalls(p)) = Len(PlanCalls(p)))
         => /\ planState[p] # "Failed"
            /\ pc \in {"returned", "thrown"} => PlanCalls(p) = FlatCalls(seedConfigs[p])

\* the program addresses the pda: accounts of call c were derived with
PdaPrograms(c) ==
  {c.accounts[q].val.program :
     q \in {r \in 1..Len(c.accounts) : /\ c.accounts[r].val.t = "PublicKey"
                                       /\ c.accounts[r].val.k = "pda"}}

\* C33: every pda: account of every call was derived with the public key of
\* the program keypair file of its plan, and the program a call is sent to is
\* the program at that key.
C33_ProgramAddress ==
  /\ \A k \in 1..Len(calls) :
       \A a \in PdaPrograms(calls[k]) : a = ProgramKeypairPublicKey(PlanOf(calls[k]).program)
  /\ pc \in {"executeFunction", "rpc"}
       => Ctx.programId = ProgramKeypairPublicKey(seedConfig.program)

\* options.program is given and is the program of no plan
FilterMatchesNoPlan ==
  /\ options.program.t = "string"
  /\ options.program.str # <<>>
  /\ \A p \in Plans : seedConfigs[p].program # options.program.str

\* the deploy directory holds <name>.so and <name>-keypair.json
HasProgramFiles(name) ==
  /\ \E q \in 1..Len(files.list) : files.list[q] = name \o sDotSo
  /\ \E q \in 1..Len(files.list) : files.list[q] = name \o sKeypairJson

\* C34: with a filter that is the program of no plan, runSeeds makes no
\* call and no lookup, skips every plan and returns without an error, and
\* deploy returns after it; findPrograms called with a filter that names no
\* program of the deploy directory makes deploy throw "Program not found".
C34_UnmatchedFilter ==
  /\ FilterMatchesNoPlan
       => /\ calls = <<>>
          /\ lookups = <<>>
          /\ submissions = 0
          /\ error = NoError
          /\ pc \in {"idle", "runSeeds", "returned"}
          /\ \A p \in Plans : planState[p] \in {"Idle", "Skipped"}
          /\ pc = "returned" => \A p \in Plans : planState[p] = "Skipped"
          /\ stage = "seeding" => ENABLED (RunSeedsSkip \/ RunSeedsReturn \/ DeploySeedsReturned)
  /\ \A q \in 1..Len(invoked) :
       (/\ invoked[q].tool = "findPrograms"
        /\ files.exists
        /\ deployOptions.program.t = "string"
        /\ ~HasProgramFiles(deployOptions.program.str))
         => /\ invoked[q].answer = "failed"
            /\ stage = "thrown"
            /\ deployError = Error("Program not found")
            /\ pc = "idle"

\* deploy --program B --seed with B deployed and a seed module that has a
\* plan for counter only: runSeeds has returned and so has deploy
C34_Witness ==
  /\ stage = "returned"
  /\ pc = "returned"
  /\ FilterMatchesNoPlan
  /\ Len(results) = 1
  /\ results[1].success
  /\ InvocationsOf("runSeeds") # <<>>

\* C35: every co-signer of a call is a keypair; a role whose own name ends
\* in _keypair keeps the address it was resolved to; and the keypair
\* generated for a new: role is among the co-signers, in either order of the
\* roles.
C35_SignersAreKeypairs ==
  \A k \in 1..Len(calls) :
    LET c == calls[k]
        cs == CallSpecOf(PlanOf(c), c.kind, c.entry)
    IN c.status # "resolveFailed"
         => /\ \A r \in 1..Len(c.signers) : c.signers[r].t = "Keypair"
            /\ \A q \in 1..Len(cs.accounts) :
                 (EndsWith(cs.accounts[q].key, sKeypairSuffix) /\ RuleOf(cs.accounts[q].val) # 7)
                   => Get(c.accounts, cs.accounts[q].key).t = "PublicKey"
            /\ \A q \in 1..Len(cs.accounts) :
                 RuleOf(cs.accounts[q].val) = 7
                   => \E r \in 1..Len(c.signers) :
                        /\ c.signers[r].t = "Keypair"
                        /\ PublicKeyOf(c.signers[r]) = Get(c.accounts, cs.accounts[q].key)

\* the seeding of deploy touched the plan of program name: it looked for its
\* files or made a call of it
SeedingAttempted(name) ==
  \/ \E k \in 1..Len(calls) : PlanOf(calls[k]).program = name
  \/ \E k \in 1..Len(lookups) : lookups[k].program = name

\* C37: the seeding that deploy runs touches only the plans of programs whose
\* deployment succeeded in this deploy, and once the seeding has been started
\* deploy does not throw: it returns its results.
C37_SeedAfterDeploy ==
  /\ \A p \in Plans : SeedingAttempted(seedConfigs[p].program)
                        => seedConfigs[p].program \in Succeeded
  /\ InvocationsOf("runSeeds") # <<>> => stage # "thrown"

\* C38: a seed entry with repeat 0 is never executed, and a plan that has a
\* seed entry with a negative repeat does not complete.
C38_NonPositiveRepeat ==
  \A p \in Plans : \A n \in 1..Len(SeedsOf(seedConfigs[p])) :
    SeedsOf(seedConfigs[p])[n].repeat.t = "number"
      => /\ SeedsOf(seedConfigs[p])[n].repeat.num = 0 => EntryCalls(p, n - 1) = <<>>
         /\ SeedsOf(seedConfigs[p])[n].repeat.num < 0 => planState[p] # "Done"

\* the number of times text begins with pda:
RECURSIVE LeadingPrefixes(_)
LeadingPrefixes(text) ==
  IF StartsWith(text, sPdaPrefix) THEN 1 + LeadingPrefixes(StripPdaPrefix(text)) ELSE 0

\* how many derivations are nested in the seed buf
RECURSIVE NestedDepth(_)
NestedDepth(buf) ==
  IF buf.b = "key" /\ buf.pk.k = "pda" /\ Len(buf.pk.seeds) = 1
  THEN 1 + NestedDepth(buf.pk.seeds[1])
  ELSE IF buf.b = "key" /\ buf.pk.k = "pda" THEN 1
  ELSE 0

\* the fragments between the commas of the text after the first pda:
Fragments(text) == Split(StripPdaPrefix(text))

\* C39: the address resolved for a pda: placeholder has one seed for each
\* fragment between the commas of the whole text; the seed of a fragment that
\* begins with pda: is a derived address with exactly one seed, nested as
\* deep as the fragment has leading pda: prefixes, and the fragments after it
\* are seeds of the outer address.
C39_NestedFragment ==
  \A sl \in PdaSlots :
    /\ Len(SlotResolved(sl).seeds) = Cardinality(CommasOf(StripPdaPrefix(SlotSource(sl).str))) + 1
    /\ \A q \in 1..Len(SlotResolved(sl).seeds) :
         IF StartsWith(Fragments(SlotSource(sl).str)[q], sPdaPrefix)
         THEN /\ SlotResolved(sl).seeds[q].b = "key"
              /\ SlotResolved(sl).seeds[q].pk.k = "pda"
              /\ Len(SlotResolved(sl).seeds[q].pk.seeds) = 1
              /\ NestedDepth(SlotResolved(sl).seeds[q])
                   = LeadingPrefixes(Fragments(SlotSource(sl).str)[q])
         ELSE NestedDepth(SlotResolved(sl).seeds[q]) = 0

\* pda:a,pda:b,c was resolved to the address with the seeds a, the address
\* derived from b alone, and c
C39_Witness ==
  \E sl \in PdaSlots :
    /\ SlotSource(sl) = Str(sPdaMiddle)
    /\ Len(SlotResolved(sl).seeds) = 3
    /\ SlotResolved(sl).seeds[1] = [b |-> "utf8", str |-> <<"a">>]
    /\ SlotResolved(sl).seeds[2].pk.seeds = <<[b |-> "utf8", str |-> <<"b">>]>>
    /\ SlotResolved(sl).seeds[3] = [b |-> "utf8", str |-> <<"c">>]
    /\ calls[sl[1]].status = "done"

\* the steps of runSeeds that follow an await: the import of the seed
\* module, loadKeypair, rpc, delay and getParsedTransaction settle, and the
\* code behind them is run
Awaited ==
  \/ LoadSeedConfigs
  \/ RunSeedsReturn
  \/ RunSeedsSkip
  \/ RunSeedsEnter
  \/ SeedProgramIdlMissing
  \/ SeedProgramKeypairMissing
  \/ SeedProgramLoaded
  \/ SeedProgramInitialize
  \/ SeedProgramSkipInitialize
  \/ SeedsCall
  \/ SeedsEntryDone
  \/ SeedsDone
  \/ RpcConfirmed
  \/ RpcRejected
  \/ DelayElapsed
  \/ ExecuteFunctionReturns
  \/ ParseLogs
  \/ GetParsedTransactionReturn
  \/ GetParsedTransactionThrows

\* the synchronous part of executeFunction, from its call to method.rpc(),
\* runs to its end: ExecuteFunctionResolve is the one step at this place, it
\* can always be taken there and it leaves the place
ResolveRuns == []<>(pc # "executeFunction")

\* every external call returns or throws and no step that can be taken is
\* put off for ever
SpecTermination ==
  InitLoad /\ [][NextLoad]_vars /\ WF_vars(Awaited) /\ ResolveRuns

\* runSeeds has returned or thrown
RunSeedsEnded == pc \in {"returned", "thrown"}

\* C40 as stated: runSeeds ends, and every plan of the list ends up Done or
\* Failed.
C40_EveryPlanEnds ==
  /\ <>RunSeedsEnded
  /\ <>[](\A p \in Plans : planState[p] \in {"Done", "Failed"})

\* a plan that is Done or Failed keeps its state and gets no further call
Terminal ==
  \A p \in Plans :
    planState[p] \in {"Done", "Failed"}
      => /\ planState'[p] = planState[p]
         /\ SelectSeq(calls', LAMBDA c : c.plan = p) = SelectSeq(calls, LAMBDA c : c.plan = p)

\* when runSeeds has ended no plan is left running: the plans it entered are
\* Done or Failed, a plan the filter lets through is left Idle only behind a
\* Failed one, and every plan the filter holds back up to there was skipped
EndedPlans ==
  \A p \in Plans :
    /\ planState[p] \in {"Done", "Failed", "Skipped", "Idle"}
    /\ planState[p] = "Idle" => \E q \in 1..(p - 1) : planState[q] = "Failed"
    /\ planState[p] = "Skipped" => Filtered(options, seedConfigs[p])
    /\ planState[p] \in {"Done", "Failed"} => ~Filtered(options, seedConfigs[p])

\* C40 as amended: runSeeds eventually returns or throws; by then every plan
\* it entered is Done or Failed, while a filtered plan was skipped and the
\* plans behind a Failed plan are still Idle; once runSeeds has ended it stays
\* ended; Done and Failed are terminal.
C40_Termination ==
  /\ <>RunSeedsEnded
  /\ [](RunSeedsEnded => EndedPlans)
  /\ [][RunSeedsEnded => RunSeedsEnded']_vars
  /\ [][Terminal]_vars

\* runSeeds has thrown with the first plan Failed at its first call, which
\* was rejected, and the second plan, which the filter lets through, never
\* entered
C40_Witness ==
  /\ pc = "thrown"
  /\ Len(seedConfigs) = 2
  /\ planState = <<"Failed", "Idle">>
  /\ ~Filtered(options, seedConfigs[2])
  /\ Len(calls) = 1
  /\ calls[1].status = "rejected"

====
